---- MODULE Spec2Model ----
(***************************************************************************)
(* A state-machine model of the CANopen SDO client of canopen/sdo.py:      *)
(* the request driver of SdoClient (send_request, read_response,           *)
(* request_response, abort), the response mailbox fed by on_response, and  *)
(* the four stream classes (ReadableStream, WritableStream,                *)
(* BlockUploadStream, BlockDownloadStream), run against an SDO server      *)
(* that follows CiA 301 and can be made to misbehave.                      *)
(*                                                                         *)
(* The client thread is sequential and blocks only in the request driver.  *)
(* Every method of a stream is therefore cut at the driver calls it makes: *)
(* the code before the first driver call is the "call" part, and the code  *)
(* that runs when the driver returns or raises is a continuation (the      *)
(* operators named ..._k), chosen by the record thr.k.                     *)
(***************************************************************************)
EXTENDS Integers, Sequences, FiniteSets, TLC

VARIABLES
    responses,  \* SdoClient.responses, the mailbox: a queue of frames
    thr,        \* the client thread: its position in the request driver
    streams,    \* the stream objects, by stream id
    outer,      \* SdoClient.upload / SdoClient.download in progress
    last,       \* the running or last finished call and its outcome
    stat,       \* counters of the running or last finished call
    hist,       \* bookkeeping: requests that timed out, stale frames taken
    sent,       \* every frame network.send_message accepted, in order
    tosrv,      \* requests on the bus, not yet handled by the server
    wire,       \* responses on the bus, not yet passed to on_response
    srv,        \* the server's transfer state
    od,         \* the server's object dictionary: the bytes of each object
    budget      \* how many calls of the user and faults of the bus are left

vars == <<responses, thr, streams, outer, last, stat, hist, sent, tosrv,
          wire, srv, od, budget>>

(***************************************************************************)
(* Bounds of the model.                                                    *)
(***************************************************************************)
MaxCalls == 3
MaxStreams == 2
MaxFaults == 1
MaxLen == 15

(***************************************************************************)
(* Constants of sdo.py.                                                    *)
(***************************************************************************)
REQUEST_SEGMENT_DOWNLOAD == 0
REQUEST_DOWNLOAD == 32
REQUEST_UPLOAD == 64
REQUEST_SEGMENT_UPLOAD == 96
REQUEST_ABORTED == 128
REQUEST_BLOCK_UPLOAD == 160
REQUEST_BLOCK_DOWNLOAD == 192
RESPONSE_SEGMENT_UPLOAD == 0
RESPONSE_SEGMENT_DOWNLOAD == 32
RESPONSE_UPLOAD == 64
RESPONSE_DOWNLOAD == 96
RESPONSE_ABORTED == 128
RESPONSE_BLOCK_DOWNLOAD == 160
RESPONSE_BLOCK_UPLOAD == 192
INITIATE_BLOCK_TRANSFER == 0
END_BLOCK_TRANSFER == 1
BLOCK_TRANSFER_RESPONSE == 2
START_BLOCK_UPLOAD == 3

EXPEDITED == 2
SIZE_SPECIFIED == 1
BLOCK_SIZE_SPECIFIED == 2
CRC_SUPPORTED == 4
NO_MORE_DATA == 1
NO_MORE_BLOCKS == 128
TOGGLE_BIT == 16

MAX_RETRIES == 1
DEFAULT_ABORT_CODE == 134217728     \* 0x08000000
BUFFER_SIZE == 7                    \* io.BufferedWriter(raw_stream, 7)

None == -1                          \* Python's None, for a size or a CRC
NoneBytes == <<-1>>                 \* Python's None, for a bytes attribute

(***************************************************************************)
(* Bytes and the frame codec (struct.pack / struct.unpack_from).           *)
(***************************************************************************)
RECURSIVE BitAnd(_, _)
BitAnd(a, b) ==
    IF a <= 0 \/ b <= 0 THEN 0
    ELSE (a % 2) * (b % 2) + 2 * BitAnd(a \div 2, b \div 2)

BitOr(a, b) == a + b - BitAnd(a, b)

BitXor(a, b) == a + b - 2 * BitAnd(a, b)

Min(a, b) == IF a < b THEN a ELSE b

\* bytearray(n)
Zeros(n) == [i \in 1..n |-> 0]

\* b[lo:hi] of Python, on a sequence indexed from 1
Slice(b, lo, hi) ==
    LET h == Min(hi, Len(b)) IN
    IF lo >= h THEN <<>> ELSE SubSeq(b, lo + 1, h)

\* data.ljust(n, b"\x00")
Ljust(b, n) == IF Len(b) >= n THEN b ELSE b \o Zeros(n - Len(b))

\* struct.pack("<L", v)
PackU32(v) ==
    <<v % 256, (v \div 256) % 256, (v \div 65536) % 256,
      (v \div 16777216) % 256>>

\* struct.unpack_from("<L", frame, offset)
UnpackU32(frame, offset) ==
    frame[offset + 1] + 256 * frame[offset + 2] + 65536 * frame[offset + 3]
        + 16777216 * frame[offset + 4]

\* SDO_STRUCT.pack(command, index, subindex), "<BHB"
SDO_STRUCT_pack(command, index, subindex) ==
    <<command, index % 256, (index \div 256) % 256, subindex>>

\* SDO_STRUCT.unpack_from(response): the index and the subindex
SDO_STRUCT_index(response) == response[2] + 256 * response[3]

SDO_STRUCT_subindex(response) == response[4]

(***************************************************************************)
(* Exceptions and results.                                                 *)
(***************************************************************************)
NoExc == [exc |-> "none", code |-> 0, msg |-> ""]

SdoCommunicationError(msg) ==
    [exc |-> "SdoCommunicationError", code |-> 0, msg |-> msg]

SdoAbortedError(code) == [exc |-> "SdoAbortedError", code |-> code, msg |-> ""]

CanError == [exc |-> "CanError", code |-> 0, msg |-> ""]

OtherError(name, msg) == [exc |-> name, code |-> 0, msg |-> msg]

\* what a driver call hands to the continuation of the method that made it
Returned(response) == [kind |-> "response", data |-> response, err |-> NoExc]

Sent == [kind |-> "sent", data |-> <<>>, err |-> NoExc]

Raised(e) == [kind |-> "raise", data |-> <<>>, err |-> e]

(***************************************************************************)
(* The client thread.                                                      *)
(***************************************************************************)
NoK == [op |-> "none", sid |-> 0, index |-> 0, subindex |-> 0, n |-> 0,
        buf |-> <<>>, stage |-> "", msg |-> ""]

IdleThr == [pc |-> "idle", drv |-> "none", req |-> <<>>,
            sretries |-> 0, rretries |-> 0, k |-> NoK]

K(op, sid) == [NoK EXCEPT !.op = op, !.sid = sid]

\* the thread enters request_response(req), send_request(req) or
\* read_response(); k says where the calling method goes on afterwards
Invoke(drv, req, k) ==
    thr' = [pc |-> IF drv = "request_response" THEN "flush"
                   ELSE IF drv = "send_request" THEN "send" ELSE "wait",
            drv |-> drv, req |-> req,
            sretries |-> MAX_RETRIES, rretries |-> MAX_RETRIES, k |-> k]

\* a call of the user returns (value) or raises (err)
Finish(op, sid, err, value) ==
    /\ thr' = IdleThr
    /\ last' = [op |-> op, sid |-> sid, state |-> "done", err |-> err,
                value |-> value, obj |-> <<>>, data |-> <<>>, force |-> FALSE,
                pos |-> 0]

Running(op, sid) ==
    [op |-> op, sid |-> sid, state |-> "running", err |-> NoExc,
     value |-> <<>>, obj |-> <<>>, data |-> <<>>, force |-> FALSE, pos |-> 0]

NoStat == [sends |-> 0, timeouts |-> 0, taken |-> 0, canerrors |-> 0]

(***************************************************************************)
(* Stream objects.  One record shape serves the four classes; a field a    *)
(* class does not have keeps its initial value.  live, index, subindex,    *)
(* gotAbort (an abort frame of the server reached a method), sentAbort (a  *)
(* method sent an abort frame) and aborted (SdoClient.abort was called     *)
(* while the stream was open) are bookkeeping of the model, not attributes;*)
(* so are returned, the bytes the reads of a block upload have returned,   *)
(* and force_segment, the argument of the constructor of WritableStream.   *)
(***************************************************************************)
NoStream ==
    [kind |-> "none", live |-> FALSE, closed |-> FALSE,
     index |-> 0, subindex |-> 0,
     size |-> None, pos |-> 0, toggle |-> 0, done |-> FALSE,
     exp_data |-> NoneBytes, exp_header |-> NoneBytes,
     crc |-> 0, server_crc |-> None, ackseq |-> 0, crc_supported |-> FALSE,
     blksize |-> 0, seqno |-> 0, last_bytes_sent |-> 0,
     gotAbort |-> FALSE, sentAbort |-> FALSE, aborted |-> FALSE,
     returned |-> <<>>, force_segment |-> FALSE]

Sids == 1..MaxStreams

FreeSids == {s \in Sids : streams[s].kind = "none"}

\* the slot a new stream object takes
NewSid == CHOOSE s \in FreeSids : \A t \in FreeSids : s <= t


\* the running call goes on with another driver call
Continue(drv, req, k) == Invoke(drv, req, k) /\ UNCHANGED last

\* a call of the user begins and enters the driver
Start(op, sid, drv, req, k) == Invoke(drv, req, k) /\ last' = Running(op, sid)

\* bookkeeping: an SdoAbortedError reached a method of this stream
MarkAbort(st, err) ==
    IF err.exc = "SdoAbortedError" THEN [st EXCEPT !.gotAbort = TRUE] ELSE st

\* a method of stream k.sid lets the exception of the driver pass
Propagate(k, out) ==
    /\ streams' = [streams EXCEPT ![k.sid] = MarkAbort(@, out.err)]
    /\ Finish(k.op, k.sid, out.err, <<>>)

\* __init__ lets the exception pass: no object is handed to the caller
PropagateInit(k, out) ==
    /\ streams' = [streams EXCEPT ![k.sid] = NoStream]
    /\ Finish(k.op, k.sid, out.err, <<>>)

(***************************************************************************)
(* ReadableStream                                                          *)
(***************************************************************************)
\* sdo.py 376: the response is not an initiate upload response
ReadableStream_init_unexpected(res_command) ==
    BitAnd(res_command, 224) /= RESPONSE_UPLOAD

\* a faulty variant: only the index is compared
ReadableStream_init_wrong_index(response, index, subindex) ==
    SDO_STRUCT_index(response) /= index

\* sdo.py 380: the response is for another object
ReadableStream_init_wrong_object(response, index, subindex) ==
    \/ SDO_STRUCT_index(response) /= index
    \/ SDO_STRUCT_subindex(response) /= subindex

\* a faulty variant: the four bytes are taken whatever the response says
\* about its size
ReadableStream_init_fields_all4(st, response) ==
    LET res_command == response[1]
        res_data == Slice(response, 4, 8)
    IN  IF BitAnd(res_command, EXPEDITED) /= 0
        THEN [st EXCEPT !.exp_data = res_data, !.pos = @ + Len(res_data)]
        ELSE IF BitAnd(res_command, SIZE_SPECIFIED) /= 0
             THEN [st EXCEPT !.size = UnpackU32(res_data, 0)]
             ELSE st

\* sdo.py 386-399: exp_data, size and pos from the initiate response
ReadableStream_init_fields(st, response) ==
    LET res_command == response[1]
        res_data == Slice(response, 4, 8)
    IN  IF BitAnd(res_command, EXPEDITED) /= 0
        THEN IF BitAnd(res_command, SIZE_SPECIFIED) /= 0
             THEN LET size == 4 - ((res_command \div 4) % 4)
                  IN  [st EXCEPT !.size = size,
                                 !.exp_data = Slice(res_data, 0, size),
                                 !.pos = @ + Len(Slice(res_data, 0, size))]
             ELSE [st EXCEPT !.exp_data = res_data, !.pos = @ + Len(res_data)]
        ELSE IF BitAnd(res_command, SIZE_SPECIFIED) /= 0
             THEN [st EXCEPT !.size = UnpackU32(res_data, 0)]
             ELSE st

ReadableStream_init_call(s, index, subindex) ==
    /\ streams' = [streams EXCEPT ![s] =
           [NoStream EXCEPT !.kind = "ReadableStream",
                            !.index = index, !.subindex = subindex]]
    /\ Start("ReadableStream.__init__", s, "request_response",
             SDO_STRUCT_pack(REQUEST_UPLOAD, index, subindex) \o Zeros(4),
             [K("ReadableStream.__init__", s) EXCEPT
                 !.index = index, !.subindex = subindex])

ReadableStream_init_k(k, out) ==
    IF out.kind = "raise" THEN PropagateInit(k, out)
    ELSE IF ReadableStream_init_unexpected(out.data[1])
    THEN PropagateInit(k,
             Raised(SdoCommunicationError("Unexpected response")))
    ELSE IF ReadableStream_init_wrong_object(out.data, k.index, k.subindex)
    THEN PropagateInit(k,
             Raised(SdoCommunicationError("Node returned a value for another object")))
    ELSE /\ streams' = [streams EXCEPT ![k.sid] =
                [ReadableStream_init_fields(@, out.data) EXCEPT !.live = TRUE]]
         /\ Finish(k.op, k.sid, NoExc, <<>>)

\* read(size) with size >= 0, as readinto and readall call it
ReadableStream_read_call(s) ==
    LET st == streams[s] IN
    IF st.done
    THEN /\ Finish("ReadableStream.read", s, NoExc, <<>>)
         /\ UNCHANGED streams
    ELSE IF st.exp_data /= NoneBytes
    THEN /\ streams' = [streams EXCEPT ![s].done = TRUE]
         /\ Finish("ReadableStream.read", s, NoExc, st.exp_data)
    ELSE /\ UNCHANGED streams
         /\ Start("ReadableStream.read", s, "request_response",
                  <<BitOr(REQUEST_SEGMENT_UPLOAD, st.toggle)>> \o Zeros(7),
                  K("ReadableStream.read", s))

\* a faulty variant: the toggle bit of the response is not looked at
ReadableStream_toggle_ignored(res_command, toggle) == FALSE

\* sdo.py 426: the toggle bit of the response is not the stream's
ReadableStream_toggle_mismatch(res_command, toggle) ==
    BitAnd(res_command, TOGGLE_BIT) /= toggle

\* sdo.py 428-433: the stream after an accepted segment response
ReadableStream_read_fields(st, res_command) ==
    LET length == 7 - ((res_command \div 2) % 8) IN
    [st EXCEPT !.done = @ \/ BitAnd(res_command, NO_MORE_DATA) /= 0,
               !.toggle = BitXor(@, TOGGLE_BIT),
               !.pos = @ + length]

\* a faulty variant: all seven bytes of the segment are taken
ReadableStream_read_data_all(response) == Slice(response, 1, 8)

\* sdo.py 428, 433: response[1:length + 1]
ReadableStream_read_data(response) ==
    LET length == 7 - ((response[1] \div 2) % 8) IN
    Slice(response, 1, length + 1)

ReadableStream_read_k(k, out) ==
    LET st == streams[k.sid] IN
    IF out.kind = "raise" THEN Propagate(k, out)
    ELSE IF BitAnd(out.data[1], 224) /= RESPONSE_SEGMENT_UPLOAD
    THEN Propagate(k, Raised(SdoCommunicationError("Unexpected response")))
    ELSE IF ReadableStream_toggle_mismatch(out.data[1], st.toggle)
    THEN Propagate(k, Raised(SdoCommunicationError("Toggle bit mismatch")))
    ELSE /\ streams' = [streams EXCEPT ![k.sid] =
                ReadableStream_read_fields(@, out.data[1])]
         /\ Finish(k.op, k.sid, NoExc, ReadableStream_read_data(out.data))

\* io.IOBase.close, which ReadableStream inherits
ReadableStream_close_call(s) ==
    /\ streams' = [streams EXCEPT ![s].closed = TRUE]
    /\ Finish("ReadableStream.close", s, NoExc, <<>>)

(***************************************************************************)
(* WritableStream                                                          *)
(***************************************************************************)
\* a faulty variant: force_segment is not looked at
WritableStream_segmented_by_size(size, force_segment) ==
    size = None \/ size > 4

\* sdo.py 474: the download is segmented, not expedited
WritableStream_segmented(size, force_segment) ==
    size = None \/ size > 4 \/ force_segment

\* sdo.py 476-481: the initiate request of a segmented download
WritableStream_init_request(index, subindex, size) ==
    IF size /= None
    THEN SDO_STRUCT_pack(BitOr(REQUEST_DOWNLOAD, SIZE_SPECIFIED),
                         index, subindex) \o PackU32(size)
    ELSE SDO_STRUCT_pack(REQUEST_DOWNLOAD, index, subindex) \o Zeros(4)

\* a faulty variant: the number of unused bytes is left out of the command
WritableStream_exp_header_no_n(index, subindex, size) ==
    SDO_STRUCT_pack(BitOr(BitOr(REQUEST_DOWNLOAD, EXPEDITED), SIZE_SPECIFIED),
                    index, subindex)

\* sdo.py 490-492: the header of the expedited request
WritableStream_exp_header(index, subindex, size) ==
    SDO_STRUCT_pack(
        BitOr(BitOr(BitOr(REQUEST_DOWNLOAD, EXPEDITED), SIZE_SPECIFIED),
              (4 - size) * 4),
        index, subindex)

WritableStream_init_call(s, index, subindex, size, force_segment) ==
    LET st == [NoStream EXCEPT !.kind = "WritableStream", !.index = index,
                               !.subindex = subindex, !.size = size,
                               !.force_segment = force_segment]
    IN  IF WritableStream_segmented(size, force_segment)
        THEN /\ streams' = [streams EXCEPT ![s] = st]
             /\ Start("WritableStream.__init__", s, "request_response",
                      WritableStream_init_request(index, subindex, size),
                      K("WritableStream.__init__", s))
        ELSE /\ streams' = [streams EXCEPT ![s] =
                    [st EXCEPT !.exp_header =
                                   WritableStream_exp_header(index, subindex, size),
                               !.live = TRUE]]
             /\ Finish("WritableStream.__init__", s, NoExc, <<>>)

WritableStream_init_k(k, out) ==
    IF out.kind = "raise" THEN PropagateInit(k, out)
    ELSE IF out.data[1] /= RESPONSE_DOWNLOAD
    THEN PropagateInit(k,
             Raised(SdoCommunicationError("Unexpected response")))
    ELSE /\ streams' = [streams EXCEPT ![k.sid].live = TRUE]
         /\ Finish(k.op, k.sid, NoExc, <<>>)

\* sdo.py 519-533: the segment request for the bytes b
WritableStream_segment_request(st, b) ==
    LET bytes_sent == Min(Len(b), 7)
        last_one == st.size /= None /\ st.pos + bytes_sent >= st.size
        command == BitOr(BitOr(BitOr(REQUEST_SEGMENT_DOWNLOAD, st.toggle),
                               IF last_one THEN NO_MORE_DATA ELSE 0),
                         (7 - bytes_sent) * 2)
    IN  <<command>> \o Ljust(Slice(b, 0, bytes_sent), 7)

\* sdo.py 523-529: toggle and _done change before the request is sent
WritableStream_segment_fields(st, b) ==
    LET bytes_sent == Min(Len(b), 7) IN
    [st EXCEPT !.toggle = BitXor(@, TOGGLE_BIT),
               !.done = @ \/ (st.size /= None /\ st.pos + bytes_sent >= st.size)]

WritableStream_write_call(s, b) ==
    LET st == streams[s] IN
    IF st.done
    THEN /\ UNCHANGED streams
         /\ Finish("WritableStream.write", s,
                   OtherError("RuntimeError",
                              "All expected data has already been transmitted"),
                   <<>>)
    ELSE IF st.exp_header /= NoneBytes
    THEN IF Len(b) < st.size
         THEN /\ UNCHANGED streams
              /\ Finish("WritableStream.write", s, NoExc, <<0>>)
         ELSE IF Len(b) > 4
         THEN /\ UNCHANGED streams
              /\ Finish("WritableStream.write", s,
                        OtherError("AssertionError",
                                   "More data received than expected"), <<>>)
         ELSE /\ UNCHANGED streams
              /\ Start("WritableStream.write", s, "request_response",
                       st.exp_header \o Ljust(b, 4),
                       [K("WritableStream.write", s) EXCEPT
                           !.n = Len(b), !.stage = "expedited"])
    ELSE /\ streams' = [streams EXCEPT ![s] =
                WritableStream_segment_fields(@, b)]
         /\ Start("WritableStream.write", s, "request_response",
                  WritableStream_segment_request(st, b),
                  [K("WritableStream.write", s) EXCEPT
                      !.n = Min(Len(b), 7), !.stage = "segmented"])

\* sdo.py 536-538: the exception raised for a response of another class;
\* the format string takes two values and is given one
WritableStream_segment_error ==
    OtherError("TypeError", "not enough arguments for format string")

WritableStream_write_k(k, out) ==
    IF out.kind = "raise" THEN Propagate(k, out)
    ELSE IF k.stage = "expedited"
    THEN IF BitAnd(out.data[1], 224) /= RESPONSE_DOWNLOAD
         THEN Propagate(k,
                  Raised(SdoCommunicationError("Unexpected response")))
         ELSE /\ streams' = [streams EXCEPT ![k.sid].done = TRUE,
                                            ![k.sid].pos = @ + k.n]
              /\ Finish(k.op, k.sid, NoExc, <<k.n>>)
    ELSE IF BitAnd(out.data[1], 224) /= RESPONSE_SEGMENT_DOWNLOAD
         THEN Propagate(k, Raised(WritableStream_segment_error))
         ELSE /\ streams' = [streams EXCEPT ![k.sid].pos = @ + k.n]
              /\ Finish(k.op, k.sid, NoExc, <<k.n>>)

\* a faulty variant: close does not look at _done
WritableStream_close_sends_always(st) == st.exp_header = NoneBytes

\* sdo.py 549: a segmented download that did not send its last segment
WritableStream_close_sends(st) == ~st.done /\ st.exp_header = NoneBytes

\* sdo.py 551-556: the empty last segment
WritableStream_close_request(st) ==
    <<BitOr(BitOr(BitOr(REQUEST_SEGMENT_DOWNLOAD, NO_MORE_DATA), st.toggle),
            7 * 2)>> \o Zeros(7)

WritableStream_close_call(s) ==
    LET st == streams[s] IN
    /\ streams' = [streams EXCEPT ![s].closed = TRUE]
    /\ IF WritableStream_close_sends(st)
       THEN Start("WritableStream.close", s, "request_response",
                  WritableStream_close_request(st),
                  K("WritableStream.close", s))
       ELSE Finish("WritableStream.close", s, NoExc, <<>>)

WritableStream_close_k(k, out) ==
    IF out.kind = "raise" THEN Propagate(k, out)
    ELSE /\ streams' = [streams EXCEPT ![k.sid].done = TRUE]
         /\ Finish(k.op, k.sid, NoExc, <<>>)


(***************************************************************************)
(* binascii.crc_hqx: CRC-16-CCITT, polynomial 0x1021, most significant bit *)
(* first.                                                                  *)
(***************************************************************************)
RECURSIVE crc_shift(_, _)
crc_shift(crc, bits) ==
    IF crc >= 32768
    THEN IF bits = 0 THEN crc
         ELSE crc_shift(BitXor((crc * 2) % 65536, 4129), bits - 1)
    ELSE IF bits = 0 THEN crc
         ELSE crc_shift((crc * 2) % 65536, bits - 1)

RECURSIVE crc_hqx(_, _)
crc_hqx(data, crc) ==
    IF crc < 0 \/ data = <<>> THEN crc
    ELSE crc_hqx(Tail(data), crc_shift(BitXor(crc, Head(data) * 256), 8))

\* sdo.py 130-133: the abort frame
SdoClient_abort_request(abort_code) ==
    <<REQUEST_ABORTED, 0, 0, 0>> \o PackU32(abort_code)

\* a method sends an abort frame and then raises SdoCommunicationError(msg)
AbortThenRaise(k, abort_code, msg) ==
    Continue("send_request", SdoClient_abort_request(abort_code),
             [k EXCEPT !.stage = "abort", !.msg = msg])

\* the abort frame of a method is sent, or send_request raised
AbortThenRaise_k(k, out) ==
    IF out.kind = "raise" THEN Propagate(k, out)
    ELSE /\ streams' = [streams EXCEPT ![k.sid].sentAbort = TRUE]
         /\ Finish(k.op, k.sid, SdoCommunicationError(k.msg), <<>>)

AbortThenRaiseInit_k(k, out) ==
    IF out.kind = "raise" THEN PropagateInit(k, out)
    ELSE PropagateInit(k, Raised(SdoCommunicationError(k.msg)))

(***************************************************************************)
(* BlockUploadStream                                                       *)
(***************************************************************************)
BlockUploadStream_blksize == 127

\* sdo.py 596-599: the initiate request
BlockUploadStream_init_request(index, subindex) ==
    SDO_STRUCT_pack(
        BitOr(BitOr(REQUEST_BLOCK_UPLOAD, INITIATE_BLOCK_TRANSFER),
              CRC_SUPPORTED),
        index, subindex) \o <<BlockUploadStream_blksize, 0, 0, 0>>

BlockUploadStream_init_call(s, index, subindex) ==
    /\ streams' = [streams EXCEPT ![s] =
           [NoStream EXCEPT !.kind = "BlockUploadStream",
                            !.index = index, !.subindex = subindex,
                            !.blksize = BlockUploadStream_blksize]]
    /\ Start("BlockUploadStream.__init__", s, "request_response",
             BlockUploadStream_init_request(index, subindex),
             [K("BlockUploadStream.__init__", s) EXCEPT
                 !.index = index, !.subindex = subindex, !.stage = "init"])

\* sdo.py 605: the response is for another object
BlockUploadStream_init_wrong_object(response, index, subindex) ==
    \/ SDO_STRUCT_index(response) /= index
    \/ SDO_STRUCT_subindex(response) /= subindex

\* sdo.py 610-613: size and crc_supported from the initiate response
BlockUploadStream_init_fields(st, response) ==
    [st EXCEPT !.size = IF BitAnd(response[1], BLOCK_SIZE_SPECIFIED) /= 0
                        THEN UnpackU32(response, 4) ELSE @,
               !.crc_supported = BitAnd(response[1], CRC_SUPPORTED) /= 0]

BlockUploadStream_init_k(k, out) ==
    IF out.kind = "raise" THEN PropagateInit(k, out)
    ELSE IF k.stage = "start"
    THEN /\ streams' = [streams EXCEPT ![k.sid].live = TRUE]
         /\ Finish(k.op, k.sid, NoExc, <<>>)
    ELSE IF BitAnd(out.data[1], 224) /= RESPONSE_BLOCK_UPLOAD
    THEN PropagateInit(k,
             Raised(SdoCommunicationError("Unexpected response")))
    ELSE IF BlockUploadStream_init_wrong_object(out.data, k.index, k.subindex)
    THEN PropagateInit(k,
             Raised(SdoCommunicationError("Node returned a value for another object")))
    ELSE /\ streams' = [streams EXCEPT ![k.sid] =
                BlockUploadStream_init_fields(@, out.data)]
         /\ Continue("send_request",
                     <<BitOr(REQUEST_BLOCK_UPLOAD, START_BLOCK_UPLOAD)>>
                         \o Zeros(7),
                     [k EXCEPT !.stage = "start"])

\* read(size) with size >= 0, as readinto and readall call it
BlockUploadStream_read_call(s) ==
    IF streams[s].done
    THEN /\ Finish("BlockUploadStream.read", s, NoExc, <<>>)
         /\ UNCHANGED streams
    ELSE /\ UNCHANGED streams
         /\ Start("BlockUploadStream.read", s, "read_response", <<>>,
                  [K("BlockUploadStream.read", s) EXCEPT !.stage = "first"])

\* sdo.py 679-682: the block acknowledge frame
BlockUploadStream_ack_request(st) ==
    <<BitOr(REQUEST_BLOCK_UPLOAD, BLOCK_TRANSFER_RESPONSE),
      st.ackseq, st.blksize, 0, 0, 0, 0, 0>>

\* sdo.py 684-685: _ackseq after the acknowledge was sent
BlockUploadStream_ack_reset(st) ==
    IF st.ackseq = st.blksize THEN [st EXCEPT !.ackseq = 0] ELSE st

\* sdo.py 638-639, 671-672: the frame is the next one of the block
BlockUploadStream_in_sequence(st, response) ==
    response[1] % 128 = st.ackseq + 1

\* sdo.py 645: the frame ends a block
BlockUploadStream_block_ends(st, res_command) ==
    st.ackseq >= st.blksize \/ BitAnd(res_command, NO_MORE_BLOCKS) /= 0

\* a faulty variant: the CRC of the END frame is read high byte first
BlockUploadStream_server_crc_be(response) == response[3] + 256 * response[2]

\* sdo.py 689: _server_crc, unpacked "<BH" from the END frame
BlockUploadStream_server_crc(response) == response[2] + 256 * response[3]

\* sdo.py 653-661: the CRC is updated and, at the end, compared; read
\* returns data
BlockUploadStream_deliver(k, st, data) ==
    LET crc == IF st.crc_supported THEN crc_hqx(data, st.crc) ELSE st.crc IN
    IF st.crc_supported /\ st.done /\ st.server_crc /= crc
    THEN /\ streams' = [streams EXCEPT ![k.sid] = [st EXCEPT !.crc = crc]]
         /\ AbortThenRaise(k, 84148228, "CRC is not OK")
    ELSE /\ streams' = [streams EXCEPT ![k.sid] =
                [st EXCEPT !.crc = crc, !.pos = @ + Len(data),
                           !.returned = @ \o data]]
         /\ Finish(k.op, k.sid, NoExc, data)

\* sdo.py 645-652: response is the next frame of the block, st the stream
\* with _ackseq advanced
BlockUploadStream_accepted(k, st, response) ==
    IF BlockUploadStream_block_ends(st, response[1])
    THEN /\ streams' = [streams EXCEPT ![k.sid] = st]
         /\ Continue("send_request", BlockUploadStream_ack_request(st),
                     [k EXCEPT !.stage = "ack", !.buf = response])
    ELSE BlockUploadStream_deliver(k, st, Slice(response, 1, 8))

\* sdo.py 663-667: _retransmit sends the acknowledge again; site 1 is the
\* call of line 636, site 2 the call of line 643
BlockUploadStream_retransmit(k, st, site) ==
    /\ streams' = [streams EXCEPT ![k.sid] = st]
    /\ Continue("send_request", BlockUploadStream_ack_request(st),
                [k EXCEPT !.stage = "rt_ack", !.n = site])

\* sdo.py 637-644: the sequence number of response is compared with _ackseq
BlockUploadStream_check_seqno(k, st, response) ==
    IF BlockUploadStream_in_sequence(st, response)
    THEN BlockUploadStream_accepted(k,
             [st EXCEPT !.ackseq = response[1] % 128], response)
    ELSE BlockUploadStream_retransmit(k, st, 2)

\* sdo.py 688-697: _end_upload took the frame response; k.buf is the last
\* data frame
BlockUploadStream_end_upload(k, response) ==
    LET st == [streams[k.sid] EXCEPT
                  !.server_crc = BlockUploadStream_server_crc(response)]
        n == (response[1] \div 4) % 8
    IN  IF BitAnd(response[1], 224) /= RESPONSE_BLOCK_UPLOAD
        THEN /\ streams' = [streams EXCEPT ![k.sid] = st]
             /\ AbortThenRaise(k, 84148225, "Unexpected response")
        ELSE IF response[1] % 4 /= END_BLOCK_TRANSFER
        THEN /\ streams' = [streams EXCEPT ![k.sid] = st]
             /\ AbortThenRaise(k, 84148225,
                               "Server did not end transfer as expected")
        ELSE BlockUploadStream_deliver(k, [st EXCEPT !.done = TRUE],
                                       Slice(k.buf, 1, 8 - n))

BlockUploadStream_read_k(k, out) ==
    LET st == streams[k.sid] IN
    CASE k.stage = "first" ->
           \* sdo.py 633-644
           IF out.kind = "raise"
           THEN IF out.err.exc = "SdoCommunicationError"
                THEN BlockUploadStream_retransmit(k, st, 1)
                ELSE Propagate(k, out)
           ELSE BlockUploadStream_check_seqno(k, st, out.data)
      [] k.stage = "rt_ack" ->
           IF out.kind = "raise" THEN Propagate(k, out)
           ELSE /\ streams' = [streams EXCEPT ![k.sid] =
                       BlockUploadStream_ack_reset(@)]
                /\ Continue("read_response", <<>>,
                            [k EXCEPT !.stage = "rt_read"])
      [] k.stage = "rt_read" ->
           \* sdo.py 668-676: the loop ends when the frame is in sequence,
           \* or when RESPONSE_TIMEOUT has passed since _retransmit began.
           \* The frame _retransmit returns at site 1 goes through the
           \* comparison of line 639 with the _ackseq _retransmit has set.
           IF out.kind = "raise" THEN Propagate(k, out)
           ELSE IF BlockUploadStream_in_sequence(st, out.data)
           THEN LET st2 == [st EXCEPT !.ackseq = out.data[1] % 128] IN
                IF k.n = 1
                THEN BlockUploadStream_check_seqno(k, st2, out.data)
                ELSE BlockUploadStream_accepted(k, st2, out.data)
           ELSE \/ /\ UNCHANGED streams
                   /\ Continue("read_response", <<>>, k)
                \/ Propagate(k, Raised(SdoCommunicationError(
                       "Some data were lost and could not be retransmitted")))
      [] k.stage = "ack" ->
           IF out.kind = "raise" THEN Propagate(k, out)
           ELSE IF BitAnd(k.buf[1], NO_MORE_BLOCKS) /= 0
           THEN /\ streams' = [streams EXCEPT ![k.sid] =
                       BlockUploadStream_ack_reset(@)]
                /\ Continue("read_response", <<>>, [k EXCEPT !.stage = "end"])
           ELSE BlockUploadStream_deliver(k, BlockUploadStream_ack_reset(st),
                                          Slice(k.buf, 1, 8))
      [] k.stage = "end" ->
           IF out.kind = "raise" THEN Propagate(k, out)
           ELSE BlockUploadStream_end_upload(k, out.data)
      [] k.stage = "abort" -> AbortThenRaise_k(k, out)

\* sdo.py 703: close sends the END request
BlockUploadStream_close_sends(st) == st.done

BlockUploadStream_close_call(s) ==
    LET st == streams[s] IN
    IF st.closed
    THEN /\ UNCHANGED streams
         /\ Finish("BlockUploadStream.close", s, NoExc, <<>>)
    ELSE /\ streams' = [streams EXCEPT ![s].closed = TRUE]
         /\ IF BlockUploadStream_close_sends(st)
            THEN Start("BlockUploadStream.close", s, "send_request",
                       <<BitOr(REQUEST_BLOCK_UPLOAD, END_BLOCK_TRANSFER)>>
                           \o Zeros(7),
                       K("BlockUploadStream.close", s))
            ELSE Finish("BlockUploadStream.close", s, NoExc, <<>>)

BlockUploadStream_close_k(k, out) ==
    IF out.kind = "raise" THEN Propagate(k, out)
    ELSE /\ UNCHANGED streams
         /\ Finish(k.op, k.sid, NoExc, <<>>)

(***************************************************************************)
(* BlockDownloadStream                                                     *)
(***************************************************************************)
\* sdo.py 745-754: the initiate request
BlockDownloadStream_init_request(index, subindex, size) ==
    LET command == BitOr(BitOr(REQUEST_BLOCK_DOWNLOAD, INITIATE_BLOCK_TRANSFER),
                         CRC_SUPPORTED)
    IN  IF size /= None
        THEN SDO_STRUCT_pack(BitOr(command, BLOCK_SIZE_SPECIFIED),
                             index, subindex) \o PackU32(size)
        ELSE SDO_STRUCT_pack(command, index, subindex) \o Zeros(4)

BlockDownloadStream_init_call(s, index, subindex, size) ==
    /\ streams' = [streams EXCEPT ![s] =
           [NoStream EXCEPT !.kind = "BlockDownloadStream", !.index = index,
                            !.subindex = subindex, !.size = size]]
    /\ Start("BlockDownloadStream.__init__", s, "request_response",
             BlockDownloadStream_init_request(index, subindex, size),
             [K("BlockDownloadStream.__init__", s) EXCEPT
                 !.index = index, !.subindex = subindex, !.stage = "init"])

\* sdo.py 758: the abort code sent for a response of another class
BlockDownloadStream_init_abort_unexpected == 84148225

\* sdo.py 763: the abort code sent for a response for another object
BlockDownloadStream_init_abort_wrong_object == DEFAULT_ABORT_CODE

BlockDownloadStream_init_k(k, out) ==
    IF k.stage = "abort" THEN AbortThenRaiseInit_k(k, out)
    ELSE IF out.kind = "raise" THEN PropagateInit(k, out)
    ELSE IF BitAnd(out.data[1], 224) /= RESPONSE_BLOCK_DOWNLOAD
    THEN /\ UNCHANGED streams
         /\ AbortThenRaise(k, BlockDownloadStream_init_abort_unexpected,
                           "Unexpected response")
    ELSE IF \/ SDO_STRUCT_index(out.data) /= k.index
            \/ SDO_STRUCT_subindex(out.data) /= k.subindex
    THEN /\ UNCHANGED streams
         /\ AbortThenRaise(k, BlockDownloadStream_init_abort_wrong_object,
                           "Node returned a value for another object")
    ELSE /\ streams' = [streams EXCEPT
                ![k.sid].blksize = out.data[5],
                ![k.sid].crc_supported =
                    BitAnd(out.data[1], CRC_SUPPORTED) /= 0,
                ![k.sid].live = TRUE]
         /\ Finish(k.op, k.sid, NoExc, <<>>)

\* a faulty variant: a short chunk is taken for the last of the download
BlockDownloadStream_is_last_or_short(st, data) ==
    (st.size /= None /\ st.pos + Len(data) >= st.size) \/ Len(data) < 7

\* sdo.py 788: the bytes data are the last of the download
BlockDownloadStream_is_last(st, data) ==
    st.size /= None /\ st.pos + Len(data) >= st.size

\* sdo.py 809-817: the stream when send(b, end) has built the frame
BlockDownloadStream_send_fields(st, b, end) ==
    IF end
    THEN [st EXCEPT !.seqno = @ + 1, !.done = TRUE, !.blksize = st.seqno + 1,
                    !.last_bytes_sent = Len(b)]
    ELSE [st EXCEPT !.seqno = @ + 1]

\* sdo.py 810-820: the data frame of send(b, end)
BlockDownloadStream_send_request(st, b, end) ==
    <<IF end THEN BitOr(st.seqno + 1, NO_MORE_BLOCKS) ELSE st.seqno + 1>>
        \o Ljust(b, 7)

\* sdo.py 784-796 and 806-821, up to the send of the data frame
BlockDownloadStream_write_call(s, b) ==
    LET st == streams[s]
        data == Slice(b, 0, 7)
        end == BlockDownloadStream_is_last(st, data)
    IN  IF st.done
        THEN /\ UNCHANGED streams
             /\ Finish("BlockDownloadStream.write", s,
                       OtherError("RuntimeError",
                                  "All expected data has already been transmitted"),
                       <<>>)
        ELSE IF ~end /\ Len(data) < 7
        THEN /\ UNCHANGED streams
             /\ Finish("BlockDownloadStream.write", s, NoExc, <<None>>)
        ELSE /\ streams' = [streams EXCEPT ![s] =
                    BlockDownloadStream_send_fields(@, data, end)]
             /\ Start("BlockDownloadStream.write", s, "send_request",
                      BlockDownloadStream_send_request(st, data, end),
                      [K("BlockDownloadStream.write", s) EXCEPT
                          !.stage = "data", !.buf = data])

\* a faulty variant: only an acknowledge of too few frames is refused
BlockDownloadStream_ack_mismatch_less(st, response) == response[2] < st.blksize

\* sdo.py 845: the acknowledged sequence number is not the one expected
BlockDownloadStream_ack_mismatch(st, response) == response[2] /= st.blksize

\* sdo.py 846: the abort code sent for it
BlockDownloadStream_ack_mismatch_code == 84148227

\* sdo.py 835-853: _block_ack took the frame response
BlockDownloadStream_block_ack(k, response) ==
    LET st == streams[k.sid] IN
    IF BitAnd(response[1], 224) /= RESPONSE_BLOCK_DOWNLOAD
    THEN /\ UNCHANGED streams
         /\ AbortThenRaise(k, 84148225, "Unexpected response")
    ELSE IF response[1] % 4 /= BLOCK_TRANSFER_RESPONSE
    THEN /\ UNCHANGED streams
         /\ AbortThenRaise(k, 84148225,
                "Server did not respond with a block download response")
    ELSE IF BlockDownloadStream_ack_mismatch(st, response)
    THEN /\ UNCHANGED streams
         /\ AbortThenRaise(k, BlockDownloadStream_ack_mismatch_code,
                           "Retransmission is not supported yet")
    ELSE /\ streams' = [streams EXCEPT ![k.sid].blksize = response[3],
                                       ![k.sid].seqno = 0]
         /\ Finish(k.op, k.sid, NoExc, <<Len(k.buf)>>)

BlockDownloadStream_write_k(k, out) ==
    LET st == streams[k.sid] IN
    CASE k.stage = "data" ->
           \* sdo.py 821-828: the data frame is sent
           IF out.kind = "raise" THEN Propagate(k, out)
           ELSE LET st2 == [st EXCEPT
                        !.pos = @ + Len(k.buf),
                        !.crc = IF st.crc_supported THEN crc_hqx(k.buf, @)
                                ELSE @]
                IN  /\ streams' = [streams EXCEPT ![k.sid] = st2]
                    /\ IF st2.seqno >= st2.blksize
                       THEN Continue("read_response", <<>>,
                                     [k EXCEPT !.stage = "ack"])
                       ELSE Finish(k.op, k.sid, NoExc, <<Len(k.buf)>>)
      [] k.stage = "ack" ->
           IF out.kind = "raise" THEN Propagate(k, out)
           ELSE BlockDownloadStream_block_ack(k, out.data)
      [] k.stage = "abort" -> AbortThenRaise_k(k, out)

\* sdo.py 862-869: the END request
BlockDownloadStream_close_request(st) ==
    LET command == BitOr(BitOr(REQUEST_BLOCK_DOWNLOAD, END_BLOCK_TRANSFER),
                         (7 - st.last_bytes_sent) * 4)
    IN  IF st.crc_supported
        THEN <<command, st.crc % 256, st.crc \div 256, 0, 0, 0, 0, 0>>
        ELSE <<command>> \o Zeros(7)

BlockDownloadStream_close_call(s) ==
    LET st == streams[s] IN
    IF st.closed
    THEN /\ UNCHANGED streams
         /\ Finish("BlockDownloadStream.close", s, NoExc, <<>>)
    ELSE /\ streams' = [streams EXCEPT ![s].closed = TRUE]
         /\ Start("BlockDownloadStream.close", s, "request_response",
                  BlockDownloadStream_close_request(st),
                  K("BlockDownloadStream.close", s))

\* a faulty variant: close returns whatever became of the END request
BlockDownloadStream_close_k_silent(k, out) ==
    /\ UNCHANGED streams
    /\ Finish(k.op, k.sid, NoExc, <<>>)

BlockDownloadStream_close_k(k, out) ==
    IF out.kind = "raise" THEN Propagate(k, out)
    ELSE IF BitAnd(out.data[1], END_BLOCK_TRANSFER) = 0
    THEN Propagate(k,
             Raised(SdoCommunicationError("Block download unsuccessful")))
    ELSE /\ UNCHANGED streams
         /\ Finish(k.op, k.sid, NoExc, <<>>)

(***************************************************************************)
(* SdoClient.abort                                                         *)
(***************************************************************************)
SdoClient_abort_call(abort_code) ==
    /\ UNCHANGED streams
    /\ Start("SdoClient.abort", 0, "send_request",
             SdoClient_abort_request(abort_code), K("SdoClient.abort", 0))

SdoClient_abort_k(k, out) ==
    IF out.kind = "raise"
    THEN /\ UNCHANGED streams
         /\ Finish(k.op, 0, out.err, <<>>)
    ELSE /\ streams' = [s \in Sids |->
                IF streams[s].live /\ ~streams[s].closed
                THEN [streams[s] EXCEPT !.aborted = TRUE] ELSE streams[s]]
         /\ Finish(k.op, 0, NoExc, <<>>)

(***************************************************************************)
(* The continuation of the method that called the driver.                  *)
(***************************************************************************)
Resume(k, out) ==
    CASE k.op = "ReadableStream.__init__" -> ReadableStream_init_k(k, out)
      [] k.op = "ReadableStream.read" -> ReadableStream_read_k(k, out)
      [] k.op = "WritableStream.__init__" -> WritableStream_init_k(k, out)
      [] k.op = "WritableStream.write" -> WritableStream_write_k(k, out)
      [] k.op = "WritableStream.close" -> WritableStream_close_k(k, out)
      [] k.op = "BlockUploadStream.__init__" ->
             BlockUploadStream_init_k(k, out)
      [] k.op = "BlockUploadStream.read" -> BlockUploadStream_read_k(k, out)
      [] k.op = "BlockUploadStream.close" -> BlockUploadStream_close_k(k, out)
      [] k.op = "BlockDownloadStream.__init__" ->
             BlockDownloadStream_init_k(k, out)
      [] k.op = "BlockDownloadStream.write" ->
             BlockDownloadStream_write_k(k, out)
      [] k.op = "BlockDownloadStream.close" ->
             BlockDownloadStream_close_k(k, out)
      [] k.op = "SdoClient.abort" -> SdoClient_abort_k(k, out)

(***************************************************************************)
(* SdoClient: the request driver.                                          *)
(*                                                                         *)
(* The server's handling of a request reads and writes only tosrv, srv, od *)
(* and the tail of wire, which no step of the client reads: it commutes    *)
(* with every step of the client.  The model keeps one of the equivalent   *)
(* orders, the one where the server handles a request before the client    *)
(* moves again (ServerDone); how late an answer is, is how long it stays   *)
(* in wire.                                                                *)
(***************************************************************************)
ServerDone == tosrv = <<>>

\* sdo.py 80-81: the receive callback, which may run on another thread
on_response ==
    /\ wire /= <<>>
    /\ ServerDone
    /\ responses' = Append(responses, Head(wire))
    /\ wire' = Tail(wire)
    /\ UNCHANGED <<thr, streams, outer, last, stat, hist, sent, tosrv, srv,
                   od, budget>>

\* sdo.py 114-116: request_response drops what the mailbox holds
request_response_flush ==
    /\ thr.pc = "flush"
    /\ ServerDone
    /\ responses' = <<>>
    /\ thr' = [thr EXCEPT !.pc = "send"]
    /\ UNCHANGED <<streams, outer, last, stat, hist, sent, tosrv, wire, srv,
                   od, budget>>

\* sdo.py 89, 97-98: network.send_message takes the frame
send_request_ok ==
    /\ thr.pc = "send"
    /\ ServerDone
    /\ sent' = Append(sent, [data |-> thr.req, sid |-> thr.k.sid,
                             op |-> thr.k.op])
    /\ tosrv' = Append(tosrv, [data |-> thr.req, id |-> Len(sent) + 1])
    /\ stat' = [stat EXCEPT !.sends = @ + 1]
    /\ IF thr.drv = "send_request"
       THEN Resume(thr.k, Sent)
       ELSE /\ thr' = [thr EXCEPT !.pc = "wait"]
            /\ UNCHANGED <<streams, last>>
    /\ UNCHANGED <<responses, outer, hist, wire, srv, od, budget>>

\* sdo.py 92-93: what send_request does with a CanError: TRUE to raise it
send_request_gives_up(retries_left) == retries_left - 1 = 0

\* sdo.py 90-96: network.send_message raises CanError
send_request_CanError ==
    /\ thr.pc = "send"
    /\ ServerDone
    /\ budget.faults > 0
    /\ budget' = [budget EXCEPT !.faults = @ - 1]
    /\ stat' = [stat EXCEPT !.canerrors = @ + 1]
    /\ IF send_request_gives_up(thr.sretries)
       THEN Resume(thr.k, Raised(CanError))
       ELSE /\ thr' = [thr EXCEPT !.sretries = @ - 1]
            /\ UNCHANGED <<streams, last>>
    /\ UNCHANGED <<responses, outer, hist, sent, tosrv, wire, srv, od>>

\* sdo.py 107: the frame is an abort frame
read_response_is_abort(response) == response[1] = RESPONSE_ABORTED

\* a faulty variant: the code is read from the start of the frame
read_response_abort_code_at_0(response) == UnpackU32(response, 0)

\* sdo.py 108: the abort code of an abort frame
read_response_abort_code(response) == UnpackU32(response, 4)

\* sdo.py 106-110: what read_response does with the frame it took
read_response_result(response) ==
    IF read_response_is_abort(response)
    THEN Raised(SdoAbortedError(read_response_abort_code(response)))
    ELSE Returned(response)

\* sdo.py 102-110: read_response takes the first frame of the mailbox
read_response_get ==
    /\ thr.pc = "wait"
    /\ ServerDone
    /\ responses /= <<>>
    /\ responses' = Tail(responses)
    /\ stat' = [stat EXCEPT !.taken = @ + 1]
    /\ hist' = [hist EXCEPT
           !.taken = Append(@, [data |-> Head(responses).data,
                                re |-> Head(responses).re,
                                for |-> Len(sent), sid |-> thr.k.sid,
                                op |-> thr.k.op, drv |-> thr.drv])]
    /\ Resume(thr.k, read_response_result(Head(responses).data))
    /\ UNCHANGED <<outer, sent, tosrv, wire, srv, od, budget>>

\* sdo.py 123-125: what request_response does with a timeout: TRUE to raise
request_response_gives_up(retries_left) == retries_left - 1 = 0

\* sdo.py 104-105, 122-126: the mailbox stays empty for RESPONSE_TIMEOUT
read_response_timeout ==
    /\ thr.pc = "wait"
    /\ ServerDone
    /\ responses = <<>>
    /\ IF wire = <<>>
       THEN UNCHANGED budget
       ELSE /\ budget.faults > 0
            /\ budget' = [budget EXCEPT !.faults = @ - 1]
    /\ stat' = [stat EXCEPT !.timeouts = @ + 1]
    /\ hist' = [hist EXCEPT !.timedOut = @ \cup {Len(sent)}]
    /\ IF thr.drv = "request_response"
          /\ ~request_response_gives_up(thr.rretries)
       THEN /\ thr' = [thr EXCEPT !.pc = "send", !.rretries = @ - 1,
                                  !.sretries = MAX_RETRIES]
            /\ UNCHANGED <<streams, last>>
       ELSE Resume(thr.k,
                Raised(SdoCommunicationError("No SDO response received")))
    /\ UNCHANGED <<responses, outer, sent, tosrv, wire, srv, od>>


(***************************************************************************)
(* The SDO server and the bus: the environment of the client.  The server  *)
(* answers as CiA 301 prescribes; ServerFault makes it answer otherwise.   *)
(***************************************************************************)
Objects == {<<4119, 0>>, <<8193, 3>>}      \* 0x1017:0 and 0x2001:3

\* the bytes a, a + 1, ... : every position holds another value
Payload(n, a) == [i \in 1..n |-> (a + i - 1) % 256]

AbortCodes == {100728834, 84148225}        \* 0x06010002, 0x05040001

NoSrv == [mode |-> "idle", index |-> 0, subindex |-> 0, pos |-> 0,
          toggle |-> 0, buf |-> <<>>, size |-> None, blksize |-> 0,
          seq |-> 0, last |-> FALSE]

\* the block size the server asks for in a block download
ServerBlkSize == 2

ServerAbortFrame(req, code) ==
    <<RESPONSE_ABORTED, req[2], req[3], req[4]>> \o PackU32(code)

ServerUpload(req) ==
    LET obj == <<SDO_STRUCT_index(req), SDO_STRUCT_subindex(req)>> IN
    IF obj \notin DOMAIN od
    THEN [srv |-> NoSrv, od |-> od,
          out |-> <<ServerAbortFrame(req, 100794368)>>]
    ELSE LET data == od[obj] IN
         IF Len(data) >= 1 /\ Len(data) <= 4
         THEN [srv |-> NoSrv, od |-> od,
               out |-> <<SDO_STRUCT_pack(
                             RESPONSE_UPLOAD + EXPEDITED + SIZE_SPECIFIED
                                 + (4 - Len(data)) * 4,
                             obj[1], obj[2]) \o Ljust(data, 4)>>]
         ELSE [srv |-> [NoSrv EXCEPT !.mode = "segup", !.index = obj[1],
                                     !.subindex = obj[2]],
               od |-> od,
               out |-> <<SDO_STRUCT_pack(RESPONSE_UPLOAD + SIZE_SPECIFIED,
                                         obj[1], obj[2])
                             \o PackU32(Len(data))>>]

ServerSegmentUpload(req) ==
    LET t == BitAnd(req[1], TOGGLE_BIT) IN
    IF srv.mode /= "segup"
    THEN [srv |-> NoSrv, od |-> od,
          out |-> <<ServerAbortFrame(Zeros(8), 84148225)>>]
    ELSE IF t /= srv.toggle
    THEN [srv |-> NoSrv, od |-> od,
          out |-> <<ServerAbortFrame(Zeros(8), 84082688)>>]
    ELSE LET data == od[<<srv.index, srv.subindex>>]
             chunk == Slice(data, srv.pos, srv.pos + 7)
             c == IF srv.pos + Len(chunk) >= Len(data) THEN 1 ELSE 0
         IN  [srv |-> IF c = 1 THEN NoSrv
                      ELSE [srv EXCEPT !.pos = @ + Len(chunk),
                                       !.toggle = TOGGLE_BIT - @],
              od |-> od,
              out |-> <<<<RESPONSE_SEGMENT_UPLOAD + t + (7 - Len(chunk)) * 2 + c>>
                            \o Ljust(chunk, 7)>>]

ServerDownload(req) ==
    LET obj == <<SDO_STRUCT_index(req), SDO_STRUCT_subindex(req)>>
        e == BitAnd(req[1], EXPEDITED) /= 0
        s == BitAnd(req[1], SIZE_SPECIFIED) /= 0
        n == IF s THEN (req[1] \div 4) % 4 ELSE 0
        ok == <<SDO_STRUCT_pack(RESPONSE_DOWNLOAD, obj[1], obj[2]) \o Zeros(4)>>
    IN  IF obj \notin DOMAIN od
        THEN [srv |-> NoSrv, od |-> od,
              out |-> <<ServerAbortFrame(req, 100794368)>>]
        ELSE IF e
        THEN [srv |-> NoSrv,
              od |-> [od EXCEPT ![obj] = Slice(req, 4, 8 - n)],
              out |-> ok]
        ELSE [srv |-> [NoSrv EXCEPT !.mode = "segdown", !.index = obj[1],
                                    !.subindex = obj[2],
                                    !.size = IF s THEN UnpackU32(req, 4)
                                             ELSE None],
              od |-> od, out |-> ok]

ServerSegmentDownload(req) ==
    LET t == BitAnd(req[1], TOGGLE_BIT)
        n == (req[1] \div 2) % 8
        c == BitAnd(req[1], NO_MORE_DATA) /= 0
        buf == srv.buf \o Slice(req, 1, 8 - n)
    IN  IF srv.mode /= "segdown"
        THEN [srv |-> NoSrv, od |-> od,
              out |-> <<ServerAbortFrame(Zeros(8), 84148225)>>]
        ELSE IF t /= srv.toggle
        THEN [srv |-> NoSrv, od |-> od,
              out |-> <<ServerAbortFrame(Zeros(8), 84082688)>>]
        ELSE [srv |-> IF c THEN NoSrv
                      ELSE [srv EXCEPT !.buf = buf, !.toggle = TOGGLE_BIT - @],
              od |-> IF c THEN [od EXCEPT ![<<srv.index, srv.subindex>>] = buf]
                     ELSE od,
              out |-> <<<<RESPONSE_SEGMENT_DOWNLOAD + t>> \o Zeros(7)>>]

\* the frames of one block of a block upload: at most blksize frames of
\* the bytes of data from pos on, the last frame of the data marked
ServerBlockFrames(data, pos, blksize) ==
    LET left == Len(data) - pos
        need == IF left <= 0 THEN 1 ELSE (left + 6) \div 7
        m == Min(blksize, need)
    IN  [i \in 1..m |->
            <<IF i = need THEN i + NO_MORE_BLOCKS ELSE i>>
                \o Ljust(Slice(data, pos + 7 * (i - 1), pos + 7 * i), 7)]

ServerBlockUpload(req) ==
    LET cs == req[1] % 4
        obj == <<SDO_STRUCT_index(req), SDO_STRUCT_subindex(req)>>
        bad == [srv |-> NoSrv, od |-> od,
                out |-> <<ServerAbortFrame(Zeros(8), 84148225)>>]
    IN  CASE cs = INITIATE_BLOCK_TRANSFER ->
               IF obj \notin DOMAIN od
               THEN [srv |-> NoSrv, od |-> od,
                     out |-> <<ServerAbortFrame(req, 100794368)>>]
               ELSE [srv |-> [NoSrv EXCEPT !.mode = "blkup_start",
                                 !.index = obj[1], !.subindex = obj[2],
                                 !.blksize = req[5]],
                     od |-> od,
                     out |-> <<SDO_STRUCT_pack(
                                   RESPONSE_BLOCK_UPLOAD + CRC_SUPPORTED
                                       + BLOCK_SIZE_SPECIFIED,
                                   obj[1], obj[2]) \o PackU32(Len(od[obj]))>>]
          [] cs = START_BLOCK_UPLOAD ->
               IF srv.mode /= "blkup_start" THEN bad
               ELSE LET data == od[<<srv.index, srv.subindex>>]
                        fs == ServerBlockFrames(data, 0, srv.blksize)
                    IN  [srv |-> [srv EXCEPT !.mode = "blkup_ack",
                                             !.seq = Len(fs)],
                         od |-> od, out |-> fs]
          [] cs = BLOCK_TRANSFER_RESPONSE ->
               IF srv.mode /= "blkup_ack" THEN bad
               ELSE LET data == od[<<srv.index, srv.subindex>>]
                        pos == srv.pos + 7 * req[2]
                        n == IF Len(data) = 0 THEN 7
                             ELSE (7 - (Len(data) % 7)) % 7
                        crc == crc_hqx(data, 0)
                    IN  IF req[2] = srv.seq /\ pos >= Len(data)
                        THEN [srv |-> [srv EXCEPT !.mode = "blkup_end"],
                              od |-> od,
                              out |-> <<<<RESPONSE_BLOCK_UPLOAD
                                            + END_BLOCK_TRANSFER + n * 4,
                                          crc % 256, crc \div 256,
                                          0, 0, 0, 0, 0>>>>]
                        ELSE LET fs == ServerBlockFrames(data, pos, req[3])
                             IN  [srv |-> [srv EXCEPT !.pos = pos,
                                              !.blksize = req[3],
                                              !.seq = Len(fs)],
                                  od |-> od, out |-> fs]
          [] OTHER -> [srv |-> NoSrv, od |-> od, out |-> <<>>]

ServerBlockDownload(req) ==
    LET obj == <<SDO_STRUCT_index(req), SDO_STRUCT_subindex(req)>>
        n == (req[1] \div 4) % 8
        data == Slice(srv.buf, 0, Len(srv.buf) - n)
    IN  IF req[1] % 2 = INITIATE_BLOCK_TRANSFER
        THEN IF obj \notin DOMAIN od
             THEN [srv |-> NoSrv, od |-> od,
                   out |-> <<ServerAbortFrame(req, 100794368)>>]
             ELSE [srv |-> [NoSrv EXCEPT !.mode = "blkdown", !.index = obj[1],
                               !.subindex = obj[2],
                               !.blksize = ServerBlkSize],
                   od |-> od,
                   out |-> <<SDO_STRUCT_pack(
                                 RESPONSE_BLOCK_DOWNLOAD + CRC_SUPPORTED,
                                 obj[1], obj[2])
                                 \o <<ServerBlkSize, 0, 0, 0>>>>]
        ELSE IF srv.mode /= "blkdown_end"
        THEN [srv |-> NoSrv, od |-> od,
              out |-> <<ServerAbortFrame(Zeros(8), 84148225)>>]
        ELSE IF req[2] + 256 * req[3] /= crc_hqx(data, 0)
        THEN [srv |-> NoSrv, od |-> od,
              out |-> <<ServerAbortFrame(Zeros(8), 84148228)>>]
        ELSE [srv |-> NoSrv,
              od |-> [od EXCEPT ![<<srv.index, srv.subindex>>] = data],
              out |-> <<<<RESPONSE_BLOCK_DOWNLOAD + END_BLOCK_TRANSFER>>
                            \o Zeros(7)>>]

\* a data frame of a block download
ServerBlockData(req) ==
    LET seqno == req[1] % 128
        fin == req[1] >= 128
    IN  IF seqno /= srv.seq + 1
        THEN [srv |-> srv, od |-> od, out |-> <<>>]
        ELSE IF fin \/ seqno = srv.blksize
        THEN [srv |-> [srv EXCEPT !.buf = @ \o Slice(req, 1, 8), !.seq = 0,
                          !.mode = IF fin THEN "blkdown_end" ELSE @],
              od |-> od,
              out |-> <<<<RESPONSE_BLOCK_DOWNLOAD + BLOCK_TRANSFER_RESPONSE,
                          seqno, srv.blksize, 0, 0, 0, 0, 0>>>>]
        ELSE [srv |-> [srv EXCEPT !.buf = @ \o Slice(req, 1, 8),
                                  !.seq = seqno],
              od |-> od, out |-> <<>>]

\* what a server that follows CiA 301 does with a request
ServerReact(req) ==
    LET ccs == req[1] \div 32 IN
    IF req[1] = REQUEST_ABORTED
    THEN [srv |-> NoSrv, od |-> od, out |-> <<>>]
    ELSE IF srv.mode = "blkdown" THEN ServerBlockData(req)
    ELSE CASE ccs = 2 -> ServerUpload(req)
           [] ccs = 3 -> ServerSegmentUpload(req)
           [] ccs = 1 -> ServerDownload(req)
           [] ccs = 0 -> ServerSegmentDownload(req)
           [] ccs = 5 -> ServerBlockUpload(req)
           [] ccs = 6 -> ServerBlockDownload(req)
           [] OTHER -> [srv |-> NoSrv, od |-> od,
                        out |-> <<ServerAbortFrame(req, 84148225)>>]

Tagged(frames, id) == [i \in 1..Len(frames) |-> [data |-> frames[i], re |-> id]]

Server ==
    /\ tosrv /= <<>>
    /\ LET r == ServerReact(Head(tosrv).data) IN
       /\ srv' = r.srv
       /\ od' = r.od
       /\ wire' = wire \o Tagged(r.out, Head(tosrv).id)
    /\ tosrv' = Tail(tosrv)
    /\ UNCHANGED <<responses, thr, streams, outer, last, stat, hist, sent,
                   budget>>

\* the answers of a server that does not follow the protocol, in place of f
FaultFrames(f) ==
    {ServerAbortFrame(f, c) : c \in AbortCodes}
        \cup {[f EXCEPT ![2] = (@ + 1) % 256], [f EXCEPT ![4] = (@ + 1) % 256]}
        \cup {[f EXCEPT ![1] = (@ + 32) % 256], [f EXCEPT ![1] = BitXor(@, TOGGLE_BIT)]}

\* the server answers with a frame it should not send
ServerFault ==
    /\ tosrv /= <<>>
    /\ budget.faults > 0
    /\ LET r == ServerReact(Head(tosrv).data) IN
       /\ r.out /= <<>>
       /\ \E f \in FaultFrames(r.out[1]) :
             /\ wire' = Append(wire, [data |-> f, re |-> Head(tosrv).id])
             /\ srv' = IF f[1] = RESPONSE_ABORTED THEN NoSrv ELSE r.srv
       /\ od' = r.od
    /\ tosrv' = Tail(tosrv)
    /\ budget' = [budget EXCEPT !.faults = @ - 1]
    /\ UNCHANGED <<responses, thr, streams, outer, last, stat, hist, sent>>

\* the server ends a segmented upload at another segment than the last of
\* the size it declared: the no-more-data bit of a segment response is
\* set or left out
ServerWrongEnd ==
    /\ tosrv /= <<>>
    /\ budget.faults > 0
    /\ LET r == ServerReact(Head(tosrv).data) IN
       /\ r.out /= <<>>
       /\ srv.mode = "segup"
       /\ BitAnd(r.out[1][1], 224) = RESPONSE_SEGMENT_UPLOAD
       /\ wire' = Append(wire,
                         [data |-> [r.out[1] EXCEPT
                                       ![1] = BitXor(@, NO_MORE_DATA)],
                          re |-> Head(tosrv).id])
       /\ srv' = r.srv
       /\ od' = r.od
    /\ tosrv' = Tail(tosrv)
    /\ budget' = [budget EXCEPT !.faults = @ - 1]
    /\ UNCHANGED <<responses, thr, streams, outer, last, stat, hist, sent>>

\* the server answers an upload expedited without saying how many of the
\* four bytes are data, which CiA 301 allows
ServerExpeditedUnsized ==
    /\ tosrv /= <<>>
    /\ LET r == ServerReact(Head(tosrv).data) IN
       /\ r.out /= <<>>
       /\ BitAnd(r.out[1][1], 224) = RESPONSE_UPLOAD
       /\ BitAnd(r.out[1][1], EXPEDITED) /= 0
       /\ wire' = Append(wire,
                         [data |-> [r.out[1] EXCEPT
                                       ![1] = RESPONSE_UPLOAD + EXPEDITED],
                          re |-> Head(tosrv).id])
       /\ srv' = r.srv
       /\ od' = r.od
    /\ tosrv' = Tail(tosrv)
    /\ UNCHANGED <<responses, thr, streams, outer, last, stat, hist, sent,
                   budget>>

(***************************************************************************)
(* The calls of the user of the client.                                    *)
(***************************************************************************)
NoOuter == [op |-> "none", sid |-> 0, index |-> 0, subindex |-> 0,
            stage |-> "", data |-> <<>>, buf |-> <<>>, acc |-> <<>>,
            force |-> FALSE, err |-> NoExc]

CanCall ==
    thr.pc = "idle" /\ outer.op = "none" /\ budget.calls > 0 /\ ServerDone

Called ==
    /\ budget' = [budget EXCEPT !.calls = @ - 1]
    /\ stat' = NoStat
    /\ UNCHANGED <<responses, outer, hist, sent, tosrv, wire, srv, od>>

Open(kind) == {s \in Sids : streams[s].kind = kind /\ streams[s].live}

WriteChunks == {Payload(3, 16), Payload(7, 32), Payload(9, 48)}

OpenSizes == {None, 3, 10}

\* Variable.open("rb", buffering=0)
U_OpenReadable ==
    /\ CanCall /\ FreeSids /= {}
    /\ \E obj \in Objects : ReadableStream_init_call(NewSid, obj[1], obj[2])
    /\ Called

\* readinto, which reads one segment
U_Read ==
    /\ CanCall
    /\ \E s \in Open("ReadableStream") : ReadableStream_read_call(s)
    /\ Called

U_CloseReadable ==
    /\ CanCall
    /\ \E s \in Open("ReadableStream") :
          ~streams[s].closed /\ ReadableStream_close_call(s)
    /\ Called

\* Variable.open("wb", buffering=0, size=size)
U_OpenWritable ==
    /\ CanCall /\ FreeSids /= {}
    /\ \E obj \in Objects, size \in OpenSizes :
          WritableStream_init_call(NewSid, obj[1], obj[2], size, FALSE)
    /\ Called

U_Write ==
    /\ CanCall
    /\ \E s \in Open("WritableStream"), b \in WriteChunks :
          WritableStream_write_call(s, b)
    /\ Called

U_CloseWritable ==
    /\ CanCall
    /\ \E s \in Open("WritableStream") :
          ~streams[s].closed /\ WritableStream_close_call(s)
    /\ Called

\* Variable.open("rb", buffering=0, block_transfer=True)
U_OpenBlockUpload ==
    /\ CanCall /\ FreeSids /= {}
    /\ \E obj \in Objects : BlockUploadStream_init_call(NewSid, obj[1], obj[2])
    /\ Called

U_BlockRead ==
    /\ CanCall
    /\ \E s \in Open("BlockUploadStream") : BlockUploadStream_read_call(s)
    /\ Called

U_CloseBlockUpload ==
    /\ CanCall
    /\ \E s \in Open("BlockUploadStream") : BlockUploadStream_close_call(s)
    /\ Called

\* Variable.open("wb", buffering=0, size=size, block_transfer=True)
U_OpenBlockDownload ==
    /\ CanCall /\ FreeSids /= {}
    /\ \E obj \in Objects, size \in OpenSizes :
          BlockDownloadStream_init_call(NewSid, obj[1], obj[2], size)
    /\ Called

U_BlockWrite ==
    /\ CanCall
    /\ \E s \in Open("BlockDownloadStream"), b \in WriteChunks :
          BlockDownloadStream_write_call(s, b)
    /\ Called

U_CloseBlockDownload ==
    /\ CanCall
    /\ \E s \in Open("BlockDownloadStream") : BlockDownloadStream_close_call(s)
    /\ Called

U_Abort ==
    /\ CanCall
    /\ \E code \in {DEFAULT_ABORT_CODE} : SdoClient_abort_call(code)
    /\ Called

(***************************************************************************)
(* SdoClient.upload and SdoClient.download: each statement that calls a    *)
(* method of the stream is a step; outer holds the locals between steps.   *)
(***************************************************************************)
InnerDone == thr.pc = "idle" /\ last.state = "done" /\ ServerDone

\* upload or download returns or raises; the stream object is dropped.
\* last keeps the arguments of the call and the stream's final pos.
OuterFinish(op, err, value) ==
    /\ outer' = NoOuter
    /\ last' = [op |-> op, sid |-> outer.sid, state |-> "done", err |-> err,
                value |-> value, obj |-> <<outer.index, outer.subindex>>,
                data |-> outer.data, force |-> outer.force,
                pos |-> streams[outer.sid].pos]
    /\ streams' = [streams EXCEPT ![outer.sid] = NoStream]
    /\ hist' = [hist EXCEPT !.download =
           IF op = "SdoClient.download"
           THEN [obj |-> <<outer.index, outer.subindex>>, data |-> outer.data,
                 force |-> outer.force, err |-> err,
                 pos |-> streams[outer.sid].pos, stat |-> stat]
           ELSE @]
    /\ UNCHANGED thr

OuterUnchanged ==
    UNCHANGED <<responses, stat, sent, tosrv, wire, srv, od, budget>>

OuterCall(k) == outer' = k /\ UNCHANGED hist

\* sdo.py 153: ReadableStream(self, index, subindex)
SdoClient_upload_call(index, subindex) ==
    /\ outer' = [NoOuter EXCEPT !.op = "upload", !.sid = NewSid,
                                !.index = index, !.subindex = subindex,
                                !.stage = "init"]
    /\ ReadableStream_init_call(NewSid, index, subindex)

\* sdo.py 153-154: fp.read(), which is readall() unless the data came with
\* the initiate response, and the close of the with statement
SdoClient_upload_step ==
    /\ outer.op = "upload"
    /\ InnerDone
    /\ LET s == outer.sid
           st == streams[s]
       IN  IF last.err /= NoExc
           THEN OuterFinish("SdoClient.upload", last.err, <<>>)
           ELSE IF outer.stage = "init"
           THEN /\ OuterCall([outer EXCEPT !.stage =
                       IF st.done \/ st.exp_data /= NoneBytes
                       THEN "read" ELSE "readall"])
                /\ ReadableStream_read_call(s)
           ELSE IF outer.stage = "read"
           THEN OuterFinish("SdoClient.upload", NoExc, last.value)
           ELSE IF last.value = <<>>
           THEN OuterFinish("SdoClient.upload", NoExc, outer.acc)
           ELSE /\ OuterCall([outer EXCEPT !.acc = @ \o last.value])
                /\ ReadableStream_read_call(s)
    /\ OuterUnchanged

\* sdo.py 173: WritableStream(self, index, subindex, len(data), force_segment)
SdoClient_download_call(index, subindex, data, force_segment) ==
    /\ outer' = [NoOuter EXCEPT !.op = "download", !.sid = NewSid,
                                !.index = index, !.subindex = subindex,
                                !.stage = "init", !.data = data,
                                !.force = force_segment]
    /\ WritableStream_init_call(NewSid, index, subindex, Len(data),
                                force_segment)

\* io.BufferedWriter.write: data that fits the buffer stays in it
BufferedWriter_fits(data) == Len(data) <= BUFFER_SIZE

\* io.BufferedWriter.write: it writes to the raw stream while more than a
\* buffer is left
BufferedWriter_writes_through(remaining) == Len(remaining) > BUFFER_SIZE

\* sdo.py 174-176: fp.write(data), then fp.close(), which flushes the buffer
\* to the raw stream and closes the raw stream, also when the flush raised
SdoClient_download_step ==
    /\ outer.op = "download"
    /\ InnerDone
    /\ LET s == outer.sid
           n == IF last.value = <<>> THEN 0 ELSE last.value[1]
           rest == Slice(outer.buf, n, Len(outer.buf))
       IN  CASE outer.stage = "init" ->
                  IF last.err /= NoExc
                  THEN OuterFinish("SdoClient.download", last.err, <<>>)
                  ELSE IF ~BufferedWriter_fits(outer.data)
                  THEN /\ OuterCall([outer EXCEPT !.stage = "write",
                                                  !.buf = outer.data])
                       /\ WritableStream_write_call(s, outer.data)
                  ELSE IF outer.data /= <<>>
                  THEN /\ OuterCall([outer EXCEPT !.stage = "flush",
                                                  !.buf = outer.data])
                       /\ WritableStream_write_call(s, outer.data)
                  ELSE /\ OuterCall([outer EXCEPT !.stage = "close"])
                       /\ WritableStream_close_call(s)
             [] outer.stage = "write" ->
                  IF last.err /= NoExc
                  THEN OuterFinish("SdoClient.download", last.err, <<>>)
                  ELSE /\ OuterCall([outer EXCEPT
                              !.stage = IF BufferedWriter_writes_through(rest)
                                        THEN "write" ELSE "flush",
                              !.buf = rest])
                       /\ WritableStream_write_call(s, rest)
             [] outer.stage = "flush" ->
                  IF last.err /= NoExc
                  THEN /\ OuterCall([outer EXCEPT !.stage = "close",
                                                  !.err = last.err])
                       /\ WritableStream_close_call(s)
                  ELSE IF rest /= <<>>
                  THEN /\ OuterCall([outer EXCEPT !.buf = rest])
                       /\ WritableStream_write_call(s, rest)
                  ELSE /\ OuterCall([outer EXCEPT !.stage = "close"])
                       /\ WritableStream_close_call(s)
             [] outer.stage = "close" ->
                  OuterFinish("SdoClient.download",
                              IF last.err /= NoExc THEN last.err ELSE outer.err,
                              <<>>)
    /\ OuterUnchanged

(***************************************************************************)
(* The specification: any calls of the user, against a server that may     *)
(* answer late, not at all, or wrongly.                                    *)
(***************************************************************************)
InitClient ==
    /\ responses = <<>>
    /\ thr = IdleThr
    /\ streams = [s \in Sids |-> NoStream]
    /\ outer = NoOuter
    /\ last = [op |-> "none", sid |-> 0, state |-> "done", err |-> NoExc,
               value |-> <<>>, obj |-> <<>>, data |-> <<>>, force |-> FALSE,
               pos |-> 0]
    /\ stat = NoStat
    /\ hist = [timedOut |-> {}, taken |-> <<>>,
               download |-> [obj |-> <<>>, data |-> <<>>, force |-> FALSE,
                             err |-> NoExc, pos |-> 0, stat |-> NoStat]]
    /\ sent = <<>>
    /\ tosrv = <<>>
    /\ wire = <<>>
    /\ srv = NoSrv

Init ==
    /\ InitClient
    /\ od = (<<4119, 0>> :> Payload(2, 52)) @@ (<<8193, 3>> :> Payload(10, 1))
    /\ budget = [calls |-> MaxCalls, faults |-> MaxFaults]

Next ==
    \/ U_OpenReadable \/ U_Read \/ U_CloseReadable
    \/ U_OpenWritable \/ U_Write \/ U_CloseWritable
    \/ U_OpenBlockUpload \/ U_BlockRead \/ U_CloseBlockUpload
    \/ U_OpenBlockDownload \/ U_BlockWrite \/ U_CloseBlockDownload
    \/ U_Abort
    \/ request_response_flush \/ send_request_ok \/ send_request_CanError
    \/ read_response_get \/ read_response_timeout
    \/ on_response \/ Server \/ ServerFault

Spec == Init /\ [][Next]_vars


(***************************************************************************)
(* download and upload against a server that follows the protocol and      *)
(* answers in time.                                                        *)
(***************************************************************************)
Payloads == {Payload(n, a) : n \in 0..MaxLen, a \in {1, 250}}

CalledOuter ==
    /\ budget' = [budget EXCEPT !.calls = @ - 1]
    /\ stat' = NoStat
    /\ UNCHANGED <<responses, hist, sent, tosrv, wire, srv, od>>

\* the user's program is download(...) followed by upload(...)
U_upload ==
    /\ CanCall /\ FreeSids /= {}
    /\ last.op = "SdoClient.download"
    /\ \E obj \in Objects : SdoClient_upload_call(obj[1], obj[2])
    /\ CalledOuter

U_download ==
    /\ CanCall /\ FreeSids /= {}
    /\ last.op = "none"
    /\ \E obj \in Objects, data \in Payloads, force_segment \in BOOLEAN :
          SdoClient_download_call(obj[1], obj[2], data, force_segment)
    /\ CalledOuter

InitRoundTrip ==
    /\ InitClient
    /\ od = [o \in Objects |-> <<>>]
    /\ budget = [calls |-> MaxCalls, faults |-> 0]

NextRoundTrip ==
    \/ U_upload \/ SdoClient_upload_step
    \/ U_download \/ SdoClient_download_step
    \/ request_response_flush \/ send_request_ok \/ read_response_get
    \/ on_response \/ Server

SpecRoundTrip == InitRoundTrip /\ [][NextRoundTrip]_vars


(***************************************************************************)
(* Block uploads of an object of three data frames; the server may be late *)
(* or answer with a frame it should not send.                              *)
(***************************************************************************)
LongLen == 17

InitBlockUpload ==
    /\ InitClient
    /\ od = (<<4119, 0>> :> Payload(2, 52)) @@
            (<<8193, 3>> :> Payload(LongLen, 1))
    /\ budget = [calls |-> MaxCalls, faults |-> MaxFaults]

NextBlockUpload ==
    \/ U_OpenBlockUpload \/ U_BlockRead \/ U_CloseBlockUpload
    \/ request_response_flush \/ send_request_ok \/ send_request_CanError
    \/ read_response_get \/ read_response_timeout
    \/ on_response \/ Server \/ ServerFault

SpecBlockUpload == InitBlockUpload /\ [][NextBlockUpload]_vars


(***************************************************************************)
(* Segmented uploads of an object of three segments, read one segment at a *)
(* time.                                                                   *)
(***************************************************************************)
InitReadable ==
    /\ InitClient
    /\ od = (<<4119, 0>> :> Payload(2, 52)) @@
            (<<8193, 3>> :> Payload(LongLen, 1))
    /\ budget = [calls |-> MaxCalls + 1, faults |-> MaxFaults]

NextReadable ==
    \/ U_OpenReadable \/ U_Read \/ U_CloseReadable
    \/ request_response_flush \/ send_request_ok \/ send_request_CanError
    \/ read_response_get \/ read_response_timeout
    \/ on_response \/ Server \/ ServerFault \/ ServerWrongEnd
    \/ ServerExpeditedUnsized

SpecReadable == InitReadable /\ [][NextReadable]_vars

(***************************************************************************)
(* Downloads through a WritableStream opened with any size and with or     *)
(* without force_segment.                                                  *)
(***************************************************************************)
WritableSizes == {None, 0, 3, 4, 5, 10}

\* WritableStream(sdo_client, index, subindex, size, force_segment)
U_NewWritable ==
    /\ CanCall /\ FreeSids /= {}
    /\ \E obj \in Objects, size \in WritableSizes, force_segment \in BOOLEAN :
          WritableStream_init_call(NewSid, obj[1], obj[2], size, force_segment)
    /\ Called

NextWritable ==
    \/ U_NewWritable \/ U_Write \/ U_CloseWritable
    \/ request_response_flush \/ send_request_ok \/ send_request_CanError
    \/ read_response_get \/ read_response_timeout
    \/ on_response \/ Server \/ ServerFault

SpecWritable == Init /\ [][NextWritable]_vars


(***************************************************************************)
(* Block downloads of several blocks: one call more than elsewhere, for     *)
(* three writes after open, or two writes between open and close.          *)
(***************************************************************************)
InitBlockDownload ==
    /\ InitClient
    /\ od = (<<4119, 0>> :> Payload(2, 52)) @@ (<<8193, 3>> :> Payload(10, 1))
    /\ budget = [calls |-> MaxCalls + 1, faults |-> MaxFaults]

NextBlockDownload ==
    \/ U_OpenBlockDownload \/ U_BlockWrite \/ U_CloseBlockDownload
    \/ request_response_flush \/ send_request_ok \/ send_request_CanError
    \/ read_response_get \/ read_response_timeout
    \/ on_response \/ Server \/ ServerFault

SpecBlockDownload == InitBlockDownload /\ [][NextBlockDownload]_vars

(***************************************************************************)
(* The properties.                                                         *)
(***************************************************************************)
\* the last frame read_response took, and the call it was taken in
LastTaken == hist.taken[Len(hist.taken)]

\* the little-endian 32-bit number in bytes 4..7 of a frame
CodeOf(frame) ==
    frame[5] + 256 * frame[6] + 65536 * frame[7] + 16777216 * frame[8]

\* the calls whose every wait for a response is made by request_response
RequestResponseOps ==
    {"ReadableStream.__init__", "ReadableStream.read",
     "WritableStream.__init__", "WritableStream.write",
     "WritableStream.close", "BlockUploadStream.__init__",
     "BlockDownloadStream.__init__", "BlockDownloadStream.close"}

InitOps ==
    {"ReadableStream.__init__", "WritableStream.__init__",
     "BlockUploadStream.__init__", "BlockDownloadStream.__init__"}

\* C1: with MAX_RETRIES = 1, a call whose request_response raised "No SDO
\* response received" has sent its request twice and has timed out twice.
C1_TwoSendsTwoTimeouts ==
    (/\ last.state = "done"
     /\ last.op \in RequestResponseOps
     /\ last.err = SdoCommunicationError("No SDO response received"))
        => stat.sends = 2 /\ stat.timeouts = 2

\* C2: with MAX_RETRIES = 1, a CanError reaches the caller only after the
\* frame has been tried again: a call that ended with CanError has seen more
\* than one failed send.
C2_CanErrorAfterRetry ==
    (last.state = "done" /\ last.err = CanError) => stat.canerrors > 1

\* C3: when read_response takes an abort frame with abort code c in bytes
\* 4..7, the call ends in that step with SdoAbortedError(c), whatever the
\* stream class and the method, and no request is sent again.
C3_AbortFrameRaises ==
    [][(/\ Len(hist'.taken) = Len(hist.taken) + 1
        /\ hist'.taken[Len(hist'.taken)].data[1] = 128)
          => LET e == hist'.taken[Len(hist'.taken)] IN
             /\ thr'.pc = "idle"
             /\ last'.state = "done"
             /\ last'.op = e.op
             /\ last'.err = SdoAbortedError(CodeOf(e.data))
             /\ sent' = sent]_vars

\* a segment read of a segmented upload was answered by an abort frame
C3_Witness ==
    /\ last.state = "done"
    /\ last.op = "ReadableStream.read"
    /\ hist.taken /= <<>>
    /\ LastTaken.op = "ReadableStream.read"
    /\ LastTaken.data[1] = 128
    /\ CodeOf(LastTaken.data) = 100728834
    /\ last.err = SdoAbortedError(100728834)

\* C4: once an abort frame of the server has reached a method of a stream,
\* the client sends no further frame for that stream, also when the stream
\* is closed.
C4_NoFrameAfterServerAbort ==
    [][\A s \in Sids :
          (streams[s].live /\ streams[s].gotAbort)
              => ~(/\ Len(sent') = Len(sent) + 1
                   /\ sent'[Len(sent')].sid = s)]_vars

\* the streams SdoClient.abort was called for
Aborted == {s \in Sids : streams[s].live /\ streams[s].aborted}

\* C5: after abort(code), a read or write on the stream of the aborted
\* transfer fails, and a second abort sends no frame.
C5_AbortIsFinal ==
    [][/\ (/\ last.state = "running"
           /\ last'.state = "done"
           /\ last'.op \in {"ReadableStream.read", "WritableStream.write",
                            "BlockUploadStream.read",
                            "BlockDownloadStream.write"}
           /\ last'.sid \in Aborted)
             => last'.err /= NoExc
       /\ (/\ thr.k.op = "SdoClient.abort"
           /\ Aborted /= {}
           /\ \A s \in Sids : streams[s].live => s \in Aborted)
             => sent' = sent]_vars

\* the transfers that are started (the initiate request was answered, and
\* not by the whole data) and neither done nor aborted
LiveTransfers ==
    {s \in Sids : /\ streams[s].live
                  /\ ~streams[s].closed
                  /\ ~streams[s].done
                  /\ ~streams[s].aborted
                  /\ ~streams[s].gotAbort
                  /\ ~streams[s].sentAbort
                  /\ streams[s].exp_header = NoneBytes
                  /\ streams[s].exp_data = NoneBytes}

\* C6: at most one transfer is live per client.
C6_OneLiveTransfer == Cardinality(LiveTransfers) <= 1

\* C7: a frame that answers a request that timed out is never taken as the
\* response to the initiate request of a later transfer.
C7_NoStaleResponse ==
    \A i \in DOMAIN hist.taken :
        LET e == hist.taken[i] IN
        (/\ e.re \in hist.timedOut
         /\ e.drv = "request_response"
         /\ e.op \in InitOps)
            => e.for = e.re

\* C8: when the response to the initiate request of an upload or a block
\* upload is for another index or subindex than the one asked for, the call
\* raises SdoCommunicationError in that step, having taken this one frame,
\* and no stream object exists.
C8_WrongObjectRejected ==
    [][(/\ Len(hist'.taken) = Len(hist.taken) + 1
        /\ thr.k.op \in {"ReadableStream.__init__",
                         "BlockUploadStream.__init__"}
        /\ thr.k.stage /= "abort"
        /\ hist'.taken[Len(hist'.taken)].data[1] /= 128
        /\ <<hist'.taken[Len(hist'.taken)].data[2]
                 + 256 * hist'.taken[Len(hist'.taken)].data[3],
             hist'.taken[Len(hist'.taken)].data[4]>>
               /= <<thr.k.index, thr.k.subindex>>)
          => /\ thr'.pc = "idle"
             /\ last'.state = "done"
             /\ last'.err.exc = "SdoCommunicationError"
             /\ stat'.taken = 1
             /\ sent' = sent
             /\ streams'[thr.k.sid] = NoStream]_vars

\* an initiate upload response for subindex 1 answered the request for
\* 0x1017:0
C8_Witness ==
    /\ last.state = "done"
    /\ last.op = "ReadableStream.__init__"
    /\ hist.taken /= <<>>
    /\ LastTaken.op = "ReadableStream.__init__"
    /\ LastTaken.data[1] \div 32 = 2
    /\ LastTaken.data[2] + 256 * LastTaken.data[3] = 4119
    /\ LastTaken.data[4] = 1
    /\ sent[LastTaken.for].data[4] = 0
    /\ last.err.exc = "SdoCommunicationError"
    /\ streams[last.sid] = NoStream



\* SdoClient.upload returned or raised, after the download of the same object
RoundTripDone ==
    /\ last.state = "done"
    /\ last.op = "SdoClient.upload"
    /\ last.obj = hist.download.obj

\* C9: download(index, subindex, p) with 1 <= len(p) <= 4 followed by
\* upload(index, subindex) returns p, and each of the two calls is one
\* expedited request and its response.
C9_ExpeditedRoundTrip ==
    (/\ RoundTripDone
     /\ Len(hist.download.data) \in 1..4
     /\ ~hist.download.force)
        => /\ hist.download.err = NoExc
           /\ last.err = NoExc
           /\ last.value = hist.download.data
           /\ hist.download.stat.sends = 1 /\ hist.download.stat.taken = 1
           /\ stat.sends = 1 /\ stat.taken = 1
           /\ Len(sent) = 2 /\ Len(hist.taken) = 2
           /\ (sent[1].data[1] \div 2) % 2 = 1
           /\ (hist.taken[2].data[1] \div 2) % 2 = 1

\* three bytes were downloaded and uploaded again
C9_Witness ==
    /\ RoundTripDone
    /\ ~hist.download.force
    /\ hist.download.data = Payload(3, 250)
    /\ last.value = Payload(3, 250)

\* C10: download(p) with len(p) >= 5 followed by upload returns p; both
\* transfers are segmented and the pos of each stream ends at len(p).
C10_SegmentedRoundTrip ==
    (/\ RoundTripDone
     /\ Len(hist.download.data) >= 5)
        => /\ hist.download.err = NoExc
           /\ last.err = NoExc
           /\ last.value = hist.download.data
           /\ hist.download.pos = Len(hist.download.data)
           /\ last.pos = Len(hist.download.data)
           /\ (sent[1].data[1] \div 2) % 2 = 0
           /\ \A i \in DOMAIN hist.taken :
                 hist.taken[i].op = "ReadableStream.__init__"
                     => (hist.taken[i].data[1] \div 2) % 2 = 0

\* fourteen bytes, two full segments, were downloaded and uploaded again
C10_Witness ==
    /\ RoundTripDone
    /\ Len(hist.download.data) = 14
    /\ last.value = hist.download.data
    /\ last.pos = 14

\* the step in which a block upload read with CRC support takes a well-formed
\* END frame
TakesEndFrame ==
    /\ thr.pc = "wait"
    /\ thr.k.op = "BlockUploadStream.read"
    /\ thr.k.stage = "end"
    /\ streams[thr.k.sid].crc_supported
    /\ Len(hist'.taken) = Len(hist.taken) + 1
    /\ LET e == hist'.taken[Len(hist'.taken)].data IN
       /\ BitAnd(e[1], 224) = RESPONSE_BLOCK_UPLOAD
       /\ e[1] % 4 = END_BLOCK_TRANSFER

\* C11: in a block upload with CRC support, the END frame is compared with
\* the CRC over exactly the bytes the reads deliver, in order: seven bytes of
\* every frame but the last, 7-n of the last.  When the CRC of the END frame
\* differs the client sends an abort frame with code 0x05040004 and read
\* raises SdoCommunicationError; when it is equal read returns the last bytes
\* and no abort frame is sent.
C11_CrcOverDeliveredBytes ==
    [][/\ TakesEndFrame =>
            LET e == hist'.taken[Len(hist'.taken)].data
                n == (e[1] \div 4) % 8
                data == Slice(thr.k.buf, 1, 8 - n)
                crc == crc_hqx(streams[thr.k.sid].returned \o data, 0)
            IN  IF e[2] + 256 * e[3] = crc
                THEN /\ thr'.pc = "idle"
                     /\ last'.state = "done"
                     /\ last'.err = NoExc
                     /\ last'.value = data
                     /\ streams'[thr.k.sid].returned =
                            streams[thr.k.sid].returned \o data
                     /\ sent' = sent
                ELSE /\ thr'.pc = "send"
                     /\ thr'.drv = "send_request"
                     /\ thr'.req = SdoClient_abort_request(84148228)
                     /\ thr'.k.stage = "abort"
                     /\ thr'.k.msg = "CRC is not OK"
                     /\ last'.state = "running"
       /\ (/\ thr.k.op = "BlockUploadStream.read"
           /\ thr.k.stage = "abort"
           /\ thr.k.msg = "CRC is not OK"
           /\ Len(sent') = Len(sent) + 1)
             => /\ sent'[Len(sent')].data = SdoClient_abort_request(84148228)
                /\ thr'.pc = "idle"
                /\ last'.state = "done"
                /\ last'.err = SdoCommunicationError("CRC is not OK")]_vars

\* a read of the ten-byte object failed on an END frame with another CRC,
\* after an earlier read had returned the first seven bytes
C11_Witness ==
    /\ last.op = "BlockUploadStream.read"
    /\ last.state = "done"
    /\ last.err = SdoCommunicationError("CRC is not OK")
    /\ sent[Len(sent)].data = SdoClient_abort_request(84148228)
    /\ Len(streams[last.sid].returned) = 7

\* a is the beginning of b
IsPrefix(a, b) == Len(a) <= Len(b) /\ a = SubSeq(b, 1, Len(a))

\* the frames a server that follows the protocol sends for the data of a
\* block upload, in one block
ServerFramesOf(s) ==
    LET fs == ServerBlockFrames(od[<<streams[s].index, streams[s].subindex>>],
                                0, BlockUploadStream_blksize)
    IN  {fs[i] : i \in DOMAIN fs}

\* every frame the reads of stream s took is a data frame the server sent
\* for the object
TookServerFrames(s) ==
    \A i \in 1..Len(hist.taken) :
       (hist.taken[i].sid = s /\ hist.taken[i].op = "BlockUploadStream.read")
          => hist.taken[i].data \in ServerFramesOf(s)

\* C12: in a block upload in which a data frame was missed (a timeout, or a
\* sequence number other than _ackseq + 1) and the server delivered its
\* frames from _ackseq + 1 on after the acknowledge was sent again, the bytes
\* the reads return are, one after the other, the bytes of the server: none
\* is dropped, none is returned twice.
C12_RetransmitLosesNothing ==
    \A s \in Sids :
       (/\ streams[s].kind = "BlockUploadStream"
        /\ TookServerFrames(s))
          => IsPrefix(streams[s].returned,
                      od[<<streams[s].index, streams[s].subindex>>])

\* the step in which a block download write takes a well-formed block
\* acknowledge
TakesBlockAck ==
    /\ thr.pc = "wait"
    /\ thr.k.op = "BlockDownloadStream.write"
    /\ thr.k.stage = "ack"
    /\ Len(hist'.taken) = Len(hist.taken) + 1
    /\ LET e == hist'.taken[Len(hist'.taken)].data IN
       /\ BitAnd(e[1], 224) = RESPONSE_BLOCK_DOWNLOAD
       /\ e[1] % 4 = BLOCK_TRANSFER_RESPONSE

C14_InitAbortCode ==
    [][(/\ thr.pc = "wait"
        /\ thr.k.op = "BlockDownloadStream.__init__"
        /\ thr.k.stage = "init"
        /\ Len(hist'.taken) = Len(hist.taken) + 1
        /\ LET e == hist'.taken[Len(hist'.taken)].data IN
           /\ e[1] /= RESPONSE_ABORTED
           /\ \/ BitAnd(e[1], 224) /= RESPONSE_BLOCK_DOWNLOAD
              \/ SDO_STRUCT_index(e) /= thr.k.index
              \/ SDO_STRUCT_subindex(e) /= thr.k.subindex)
          => /\ thr'.pc = "send"
             /\ thr'.drv = "send_request"
             /\ thr'.req = SdoClient_abort_request(84148225)
             /\ thr'.k.stage = "abort"]_vars

\* C15: a download is expedited exactly when the size is known, at most 4,
\* and force_segment is false.  Otherwise the client sends the initiate
\* request of a segmented download, which has SIZE_SPECIFIED and the size in
\* its bytes 4..7 exactly when the size is known, and the first byte of the
\* response has to be RESPONSE_DOWNLOAD.
C15_ExpeditedOrSegmented ==
    [][/\ (/\ thr.pc = "idle"
           /\ budget'.calls = budget.calls - 1
           /\ last'.op = "WritableStream.__init__")
          => LET s == last'.sid
                 st == streams'[s]
                 size == st.size
             IN  IF size /= None /\ size <= 4 /\ ~st.force_segment
                 THEN /\ thr'.pc = "idle"
                      /\ last'.state = "done" /\ last'.err = NoExc
                      /\ st.live
                      /\ st.exp_header /= NoneBytes
                      /\ sent' = sent
                 ELSE /\ thr'.pc = "flush"
                      /\ thr'.drv = "request_response"
                      /\ st.exp_header = NoneBytes
                      /\ ~st.live
                      /\ thr'.req =
                           IF size /= None
                           THEN <<REQUEST_DOWNLOAD + SIZE_SPECIFIED,
                                  st.index % 256, st.index \div 256,
                                  st.subindex>> \o PackU32(size)
                           ELSE <<REQUEST_DOWNLOAD,
                                  st.index % 256, st.index \div 256,
                                  st.subindex, 0, 0, 0, 0>>
       /\ (/\ thr.pc = "wait"
           /\ thr.k.op = "WritableStream.__init__"
           /\ Len(hist'.taken) = Len(hist.taken) + 1
           /\ hist'.taken[Len(hist'.taken)].data[1] /= RESPONSE_ABORTED)
             => /\ thr'.pc = "idle"
                /\ last'.state = "done"
                /\ sent' = sent
                /\ IF hist'.taken[Len(hist'.taken)].data[1] = RESPONSE_DOWNLOAD
                   THEN last'.err = NoExc /\ streams'[thr.k.sid].live
                   ELSE /\ last'.err =
                              SdoCommunicationError("Unexpected response")
                        /\ streams'[thr.k.sid].kind = "none"]_vars

\* a stream of known size 3 was opened with force_segment: the initiate
\* request with the size was sent, and its answer 0x70, of the class of
\* RESPONSE_DOWNLOAD but another byte, was refused
C15_Witness ==
    /\ last.op = "WritableStream.__init__"
    /\ last.state = "done"
    /\ last.err = SdoCommunicationError("Unexpected response")
    /\ Len(sent) = 1
    /\ sent[1].data[1] = REQUEST_DOWNLOAD + SIZE_SPECIFIED
    /\ UnpackU32(sent[1].data, 4) = 3
    /\ LastTaken.data[1] = RESPONSE_DOWNLOAD + TOGGLE_BIT

\* the number of segment responses among the first n frames taken that the
\* reads of stream s had to accept: the first with toggle bit 0, each
\* following one with the other toggle bit than the one accepted before
RECURSIVE AcceptedSegments(_, _)
AcceptedSegments(s, n) ==
    IF n <= 0 THEN 0
    ELSE LET a == AcceptedSegments(s, n - 1)
             e == hist.taken[n]
         IN  IF /\ e.sid = s
                /\ e.op = "ReadableStream.read"
                /\ BitAnd(e.data[1], 224) = RESPONSE_SEGMENT_UPLOAD
                /\ BitAnd(e.data[1], TOGGLE_BIT) = TOGGLE_BIT * (a % 2)
             THEN a + 1
             ELSE a

\* C16: in a segmented upload the request for the k-th segment has toggle
\* bit 0 for odd k and 1 for even k: the toggle bit goes on only when a
\* segment response with the toggle bit of the request has been accepted,
\* and a segment response with the other toggle bit makes read raise
\* SdoCommunicationError.
C16_UploadToggle ==
    [][/\ (/\ Len(sent') = Len(sent) + 1
           /\ sent'[Len(sent')].op = "ReadableStream.read")
             => LET f == sent'[Len(sent')]
                    k == AcceptedSegments(f.sid, Len(hist.taken)) + 1
                IN  f.data = <<REQUEST_SEGMENT_UPLOAD
                                 + (IF k % 2 = 1 THEN 0 ELSE TOGGLE_BIT),
                               0, 0, 0, 0, 0, 0, 0>>
       /\ (/\ thr.pc = "wait"
           /\ thr.k.op = "ReadableStream.read"
           /\ Len(hist'.taken) = Len(hist.taken) + 1
           /\ BitAnd(hist'.taken[Len(hist'.taken)].data[1], 224)
                 = RESPONSE_SEGMENT_UPLOAD)
             => LET e == hist'.taken[Len(hist'.taken)].data
                    s == thr.k.sid
                    k == AcceptedSegments(s, Len(hist.taken)) + 1
                IN  /\ thr'.pc = "idle"
                    /\ last'.state = "done"
                    /\ sent' = sent
                    /\ IF BitAnd(e[1], TOGGLE_BIT)
                            = (IF k % 2 = 1 THEN 0 ELSE TOGGLE_BIT)
                       THEN /\ last'.err = NoExc
                            /\ streams'[s].toggle /= streams[s].toggle
                       ELSE /\ last'.err =
                                  SdoCommunicationError("Toggle bit mismatch")
                            /\ streams'[s] = streams[s]
       /\ \A s \in Sids :
             (streams[s].kind = "ReadableStream"
                 /\ streams'[s].kind = "ReadableStream"
                 /\ streams'[s].toggle /= streams[s].toggle)
                => /\ thr.pc = "wait" /\ thr.k.sid = s
                   /\ thr.k.op = "ReadableStream.read"
                   /\ last'.err = NoExc]_vars

\* two segments were accepted, the request for the third had toggle bit 0
\* again, and its answer with toggle bit 1 made read raise
C16_Witness ==
    /\ last.op = "ReadableStream.read"
    /\ last.state = "done"
    /\ last.err = SdoCommunicationError("Toggle bit mismatch")
    /\ AcceptedSegments(last.sid, Len(hist.taken)) = 2
    /\ sent[Len(sent)].data[1] = REQUEST_SEGMENT_UPLOAD
    /\ BitAnd(LastTaken.data[1], TOGGLE_BIT) = TOGGLE_BIT

\* the step in which a segmented write takes a frame that is no abort frame
TakesSegmentAnswer ==
    /\ thr.pc = "wait"
    /\ thr.k.op = "WritableStream.write"
    /\ streams[thr.k.sid].exp_header = NoneBytes
    /\ Len(hist'.taken) = Len(hist.taken) + 1
    /\ hist'.taken[Len(hist'.taken)].data[1] /= RESPONSE_ABORTED

\* C17: in a segmented download, a segment response whose toggle bit is not
\* the toggle bit of the segment request is a protocol error: write raises
\* SdoCommunicationError.
C17_DownloadToggleChecked ==
    [][(/\ TakesSegmentAnswer
        /\ LET e == hist'.taken[Len(hist'.taken)].data IN
           /\ BitAnd(e[1], 224) = RESPONSE_SEGMENT_DOWNLOAD
           /\ BitAnd(e[1], TOGGLE_BIT) /= BitAnd(thr.req[1], TOGGLE_BIT))
          => /\ thr'.pc = "idle"
             /\ last'.state = "done"
             /\ last'.err.exc = "SdoCommunicationError"]_vars

\* C18: in the segment loop of a segmented download, a response that is no
\* abort frame and whose command class is not RESPONSE_SEGMENT_DOWNLOAD makes
\* write raise SdoCommunicationError, no exception of another type, and pos
\* is not advanced.
C18_WrongClassRaisesSdoError ==
    [][(/\ TakesSegmentAnswer
        /\ BitAnd(hist'.taken[Len(hist'.taken)].data[1], 224)
              /= RESPONSE_SEGMENT_DOWNLOAD)
          => /\ thr'.pc = "idle"
             /\ last'.state = "done"
             /\ last'.err.exc = "SdoCommunicationError"
             /\ streams'[thr.k.sid].pos = streams[thr.k.sid].pos]_vars

\* C19: in a segmented upload for which the server declared the size, the
\* transfer is done exactly when pos = size: a segment response with the
\* no-more-data bit while pos + length is not the size, and a transfer that
\* goes on after pos = size, are not taken as the end of a successful upload.
C19_DoneExactlyAtSize ==
    \A s \in Sids :
       (/\ streams[s].kind = "ReadableStream"
        /\ streams[s].live
        /\ streams[s].exp_data = NoneBytes
        /\ streams[s].size /= None)
          => (streams[s].done <=> streams[s].pos = streams[s].size)

\* the frames write and close have sent for stream s, as indices of sent
SegmentFrames(s) ==
    {i \in 1..Len(sent) :
        /\ sent[i].sid = s
        /\ sent[i].op \in {"WritableStream.write", "WritableStream.close"}}

CarriesNoMoreData(i) == BitAnd(sent[i].data[1], NO_MORE_DATA) /= 0

\* of the segment requests of the finished and closed segmented download s,
\* the last carries the no-more-data bit and no other does; a request that
\* request_response sent again is the same request
OneLastSegment(s) ==
    LET F == SegmentFrames(s) IN
    /\ F /= {}
    /\ LET m == CHOOSE i \in F : \A j \in F : j <= i IN
       /\ CarriesNoMoreData(m)
       /\ \A i \in F : CarriesNoMoreData(i) =>
             \A j \in F : j >= i => sent[j].data = sent[m].data

DownloadsEndOnce ==
    \A s \in Sids :
       (/\ streams[s].kind = "WritableStream"
        /\ streams[s].exp_header = NoneBytes
        /\ streams[s].done /\ streams[s].closed
        /\ thr.pc = "idle"
        /\ budget.faults = MaxFaults)
          => OneLastSegment(s)

\* C20: of the segment requests of a segmented download that is opened,
\* written and closed, exactly one carries the no-more-data bit, and it is
\* the last: the data segment with which pos reaches the size, when the size
\* is known and reached, and else the empty segment (7 unused bytes, the
\* current toggle bit) that close sends.  After it write raises and sends
\* nothing.
C20_OneLastSegment ==
    [][/\ (/\ Len(sent') = Len(sent) + 1
           /\ sent'[Len(sent')].op = "WritableStream.write"
           /\ streams[sent'[Len(sent')].sid].exp_header = NoneBytes)
             => LET f == sent'[Len(sent')].data
                    st == streams[sent'[Len(sent')].sid]
                    bytes_sent == 7 - ((f[1] \div 2) % 8)
                IN  /\ f[1] % 2 = 1 <=>
                          (st.size /= None /\ st.pos + bytes_sent >= st.size)
                    /\ f[1] % 2 = 1 <=> st.done
       /\ (/\ Len(sent') = Len(sent) + 1
           /\ sent'[Len(sent')].op = "WritableStream.close")
             => LET f == sent'[Len(sent')].data
                    st == streams[sent'[Len(sent')].sid]
                IN  /\ ~st.done
                    /\ st.exp_header = NoneBytes
                    /\ f = <<REQUEST_SEGMENT_DOWNLOAD + NO_MORE_DATA
                               + st.toggle + 7 * 2, 0, 0, 0, 0, 0, 0, 0>>
       /\ (/\ thr.k.op = "WritableStream.close"
           /\ thr'.pc = "idle"
           /\ last'.err = NoExc)
             => streams'[thr.k.sid].done
       /\ (/\ thr.pc = "idle"
           /\ budget'.calls = budget.calls - 1
           /\ last'.op = "WritableStream.write"
           /\ streams[last'.sid].done)
             => /\ thr'.pc = "idle"
                /\ last'.state = "done"
                /\ last'.err /= NoExc
                /\ sent' = sent
       /\ DownloadsEndOnce']_vars

\* a stream of unknown size was opened, seven bytes were written with toggle
\* bit 0, and close sent the empty last segment with toggle bit 1
C20_Witness ==
    /\ last.op = "WritableStream.close"
    /\ last.state = "done"
    /\ last.err = NoExc
    /\ streams[last.sid].size = None
    /\ streams[last.sid].pos = 7
    /\ streams[last.sid].done
    /\ sent[Len(sent)].data = <<31, 0, 0, 0, 0, 0, 0, 0>>
    /\ Cardinality({i \in SegmentFrames(last.sid) : CarriesNoMoreData(i)}) = 1

\* the frame taken as entry e is a block acknowledge for the frames sent
\* before it: it acknowledges the sequence number of the last one
IsAcceptedAck(s, e) ==
    /\ e.sid = s
    /\ e.op = "BlockDownloadStream.write"
    /\ BitAnd(e.data[1], 224) = RESPONSE_BLOCK_DOWNLOAD
    /\ e.data[1] % 4 = BLOCK_TRANSFER_RESPONSE
    /\ e.for >= 1
    /\ e.data[2] = sent[e.for].data[1] % 128

AcceptedAcks(s) ==
    {i \in 1..Len(hist.taken) : IsAcceptedAck(s, hist.taken[i])}

\* the index in sent of the last frame of the last acknowledged block of
\* stream s, 0 when no block was acknowledged
AckedUpTo(s) ==
    IF AcceptedAcks(s) = {} THEN 0
    ELSE LET m == CHOOSE i \in AcceptedAcks(s) : \A j \in AcceptedAcks(s) : j <= i
         IN  hist.taken[m].for

\* the data frames of stream s sent since then: an abort frame of write has
\* sequence number 0
BlockDataFrames(s) ==
    {i \in 1..Len(sent) :
        /\ i > AckedUpTo(s)
        /\ sent[i].sid = s
        /\ sent[i].op = "BlockDownloadStream.write"
        /\ sent[i].data[1] % 128 >= 1}

\* the block size the server announced last: in the last accepted block
\* acknowledge, or else in the initiate response
BlockSizeInForce(s) ==
    IF AcceptedAcks(s) /= {}
    THEN LET m == CHOOSE i \in AcceptedAcks(s) : \A j \in AcceptedAcks(s) : j <= i
         IN  hist.taken[m].data[3]
    ELSE LET I == {i \in 1..Len(hist.taken) :
                      /\ hist.taken[i].sid = s
                      /\ hist.taken[i].op = "BlockDownloadStream.__init__"}
             m == CHOOSE i \in I : \A j \in I : j <= i
         IN  hist.taken[m].data[5]

\* C21: in a block download the data frames of a block carry the sequence
\* numbers 1, 2, 3, ..., one more with every frame and never more than the
\* block size in force; after an accepted block acknowledge the counter is 0
\* and the next data frame carries 1, under the block size of that
\* acknowledge.
C21_SeqnoCountsFrames ==
    [][/\ (/\ thr.pc = "send"
           /\ thr.k.op = "BlockDownloadStream.write"
           /\ thr.k.stage = "data"
           /\ Len(sent') = Len(sent) + 1)
             => LET s == thr.k.sid
                    seqno == sent'[Len(sent')].data[1] % 128
                IN  /\ seqno = Cardinality(BlockDataFrames(s)) + 1
                    /\ seqno <= BlockSizeInForce(s)
       /\ (/\ TakesBlockAck
           /\ hist'.taken[Len(hist'.taken)].data[2]
                 = sent[Len(sent)].data[1] % 128)
             => /\ streams'[thr.k.sid].seqno = 0
                /\ streams'[thr.k.sid].blksize
                      = hist'.taken[Len(hist'.taken)].data[3]]_vars

\* the step in which a read of a block upload takes the data frame with the
\* next sequence number and moves _ackseq to it
AcceptsDataFrame ==
    /\ thr.pc = "wait"
    /\ thr.k.op = "BlockUploadStream.read"
    /\ thr.k.stage /= "end"
    /\ Len(hist'.taken) = Len(hist.taken) + 1
    /\ hist'.taken[Len(hist'.taken)].data[1] /= RESPONSE_ABORTED
    /\ hist'.taken[Len(hist'.taken)].data[1] % 128
          = streams[thr.k.sid].ackseq + 1
    /\ streams'[thr.k.sid].ackseq = streams[thr.k.sid].ackseq + 1

\* the START request follows the initiate response, which answers the
\* initiate request
StartAfterInitiate ==
    (/\ Len(sent') = Len(sent) + 1
     /\ sent'[Len(sent')].op = "BlockUploadStream.__init__"
     /\ sent'[Len(sent')].data[1]
           = REQUEST_BLOCK_UPLOAD + START_BLOCK_UPLOAD)
       => /\ Len(sent) >= 1 /\ Len(hist.taken) >= 1
          /\ sent[Len(sent)].data[1]
                = REQUEST_BLOCK_UPLOAD + INITIATE_BLOCK_TRANSFER + CRC_SUPPORTED
          /\ sent[Len(sent)].sid = thr.k.sid
          /\ LastTaken.op = "BlockUploadStream.__init__"
          /\ LastTaken.sid = thr.k.sid
          /\ BitAnd(LastTaken.data[1], 224) = RESPONSE_BLOCK_UPLOAD

\* the acknowledge of the last block is sent before the END frame is taken
EndFrameAfterAck ==
    (/\ thr.pc = "wait"
     /\ thr.k.op = "BlockUploadStream.read"
     /\ thr.k.stage = "end"
     /\ Len(hist'.taken) = Len(hist.taken) + 1)
       => /\ sent[Len(sent)].sid = thr.k.sid
          /\ sent[Len(sent)].data[1]
                = REQUEST_BLOCK_UPLOAD + BLOCK_TRANSFER_RESPONSE
          /\ sent[Len(sent)].data[2] = thr.k.buf[1] % 128

\* the END request of close is sent after the END frame was taken
EndRequestAfterEndFrame ==
    (/\ Len(sent') = Len(sent) + 1
     /\ sent'[Len(sent')].op = "BlockUploadStream.close")
       => /\ sent'[Len(sent')].data[1]
                = REQUEST_BLOCK_UPLOAD + END_BLOCK_TRANSFER
          /\ \E i \in 1..Len(hist.taken) :
                /\ hist.taken[i].sid = thr.k.sid
                /\ hist.taken[i].op = "BlockUploadStream.read"
                /\ BitAnd(hist.taken[i].data[1], 224) = RESPONSE_BLOCK_UPLOAD
                /\ hist.taken[i].data[1] % 4 = END_BLOCK_TRANSFER

\* _ackseq goes back to 0 only with the acknowledge of a full block
AckseqResetAtFullBlock ==
    \A s \in Sids :
       (/\ streams[s].kind = "BlockUploadStream"
        /\ streams'[s].kind = "BlockUploadStream"
        /\ streams[s].ackseq /= 0
        /\ streams'[s].ackseq = 0)
          => /\ streams[s].ackseq = streams[s].blksize
             /\ Len(sent') = Len(sent) + 1
             /\ sent'[Len(sent')].data[1]
                   = REQUEST_BLOCK_UPLOAD + BLOCK_TRANSFER_RESPONSE

\* C22: in a block upload the START request follows the initiate response;
\* when a data frame is accepted, a block acknowledge (byte 1 the accepted
\* sequence number, byte 2 the block size) is sent exactly when the accepted
\* sequence number has reached the block size or the frame has the
\* last-frame bit; _ackseq goes back to 0 only with the acknowledge of a full
\* block; the acknowledge of the last block is sent before the END frame is
\* taken, and the END request of close only after it.
C22_BlockUploadOrder ==
    [][/\ StartAfterInitiate
       /\ AcceptsDataFrame =>
            LET e == hist'.taken[Len(hist'.taken)].data
                st == streams'[thr.k.sid]
            IN  IF st.ackseq >= st.blksize \/ e[1] >= NO_MORE_BLOCKS
                THEN /\ thr'.pc = "send"
                     /\ thr'.req = <<REQUEST_BLOCK_UPLOAD
                                       + BLOCK_TRANSFER_RESPONSE,
                                     st.ackseq, st.blksize, 0, 0, 0, 0, 0>>
                ELSE /\ thr'.pc = "idle"
                     /\ last'.err = NoExc
                     /\ sent' = sent
       /\ AckseqResetAtFullBlock
       /\ EndFrameAfterAck
       /\ EndRequestAfterEndFrame]_vars

\* C23: in a block download, a write of fewer than 7 bytes that does not
\* reach the declared size is not consumed: no frame is sent, and pos, the
\* sequence number, the CRC and the done flag stay as they are.  A chunk of
\* fewer than 7 bytes is sent only as the last frame, with the
\* no-more-blocks bit.
C23_ShortWriteNotConsumed ==
    [][/\ \A s \in Sids, b \in WriteChunks :
             (/\ CanCall
              /\ s \in Open("BlockDownloadStream")
              /\ BlockDownloadStream_write_call(s, b)
              /\ Len(b) < 7
              /\ ~streams[s].done
              /\ ~(streams[s].size /= None
                      /\ streams[s].pos + Len(b) >= streams[s].size))
                => /\ thr'.pc = "idle"
                   /\ last'.state = "done"
                   /\ last'.err = NoExc
                   /\ last'.value = <<None>>
                   /\ sent' = sent
                   /\ streams'[s].pos = streams[s].pos
                   /\ streams'[s].seqno = streams[s].seqno
                   /\ streams'[s].crc = streams[s].crc
                   /\ streams'[s].done = streams[s].done
       /\ (/\ thr.pc = "send"
           /\ thr.k.op = "BlockDownloadStream.write"
           /\ thr.k.stage = "data"
           /\ Len(sent') = Len(sent) + 1
           /\ Len(thr.k.buf) < 7)
             => /\ sent'[Len(sent')].data[1] >= NO_MORE_BLOCKS
                /\ streams[thr.k.sid].size /= None
                /\ streams[thr.k.sid].pos + Len(thr.k.buf)
                      >= streams[thr.k.sid].size]_vars

\* after seven bytes were sent on a stream of unknown size, a write of three
\* bytes was not consumed
C23_Witness ==
    /\ last.op = "BlockDownloadStream.write"
    /\ last.state = "done"
    /\ last.err = NoExc
    /\ last.value = <<None>>
    /\ streams[last.sid].size = None
    /\ streams[last.sid].pos = 7
    /\ streams[last.sid].seqno = 1
    /\ ~streams[last.sid].done

\* the data frames write has sent for the block download s, as indices of
\* sent: an abort frame of write has sequence number 0
DataFramesSent(s) ==
    {i \in 1..Len(sent) :
        /\ sent[i].sid = s
        /\ sent[i].op = "BlockDownloadStream.write"
        /\ sent[i].data[1] % 128 >= 1}

\* bytes 1..7 of the data frames of s among the first n frames sent
RECURSIVE DataFieldsSent(_, _)
DataFieldsSent(s, n) ==
    IF n <= 0 THEN <<>>
    ELSE IF n \in DataFramesSent(s)
         THEN DataFieldsSent(s, n - 1) \o Slice(sent[n].data, 1, 8)
         ELSE DataFieldsSent(s, n - 1)

\* C24: when a block download on which data was sent is closed, the
\* unused-bytes field (bits 4..2) of the END request is 7 minus the number
\* of payload bytes of the last data frame sent, however the stream was
\* written, and bytes 1..2 are the CRC of exactly the payload bytes sent
\* when the server announced CRC support.
C24_EndRequestFields ==
    [][(/\ Len(sent') = Len(sent) + 1
        /\ sent'[Len(sent')].op = "BlockDownloadStream.close"
        /\ DataFramesSent(sent'[Len(sent')].sid) /= {})
          => LET f == sent'[Len(sent')].data
                 s == sent'[Len(sent')].sid
                 st == streams[s]
                 frames == Cardinality(DataFramesSent(s))
                 last_bytes == st.pos - 7 * (frames - 1)
                 payload == Slice(DataFieldsSent(s, Len(sent)), 0, st.pos)
             IN  /\ f[1] % 4 = END_BLOCK_TRANSFER
                 /\ (f[1] \div 4) % 8 = 7 - last_bytes
                 /\ st.crc_supported
                       => f[2] + 256 * f[3] = crc_hqx(payload, 0)]_vars

\* the initiate response with which the upload s was opened
InitiateResponse(s) ==
    LET I == {i \in 1..Len(hist.taken) :
                 /\ hist.taken[i].sid = s
                 /\ hist.taken[i].op = "ReadableStream.__init__"}
    IN  hist.taken[CHOOSE i \in I : \A j \in I : j <= i].data

\* the step in which the user calls read on an open upload
CallsRead ==
    /\ thr.pc = "idle"
    /\ budget'.calls = budget.calls - 1
    /\ last'.op = "ReadableStream.read"

\* C25: after an upload that the server answered expedited, the first read
\* returns the expedited bytes, 4 - n of them when the response has the size
\* bit and else all 4, and sends no frame; every later read returns no bytes
\* and sends no frame.  In a segmented upload every read after the segment
\* with the no-more-data bit returns no bytes and sends no frame.
C25_ReadAtEnd ==
    [][/\ (CallsRead /\ streams[last'.sid].done)
             => /\ thr'.pc = "idle"
                /\ last'.state = "done"
                /\ last'.err = NoExc
                /\ last'.value = <<>>
                /\ sent' = sent
                /\ streams' = streams
       /\ (/\ CallsRead
           /\ ~streams[last'.sid].done
           /\ BitAnd(InitiateResponse(last'.sid)[1], EXPEDITED) /= 0)
             => LET e == InitiateResponse(last'.sid)
                    n == (e[1] \div 4) % 4
                IN  /\ thr'.pc = "idle"
                    /\ last'.state = "done"
                    /\ last'.err = NoExc
                    /\ last'.value =
                          IF BitAnd(e[1], SIZE_SPECIFIED) /= 0
                          THEN SubSeq(e, 5, 8 - n)
                          ELSE SubSeq(e, 5, 8)
                    /\ sent' = sent
                    /\ streams'[last'.sid].done
       /\ (/\ thr.pc = "wait"
           /\ thr.k.op = "ReadableStream.read"
           /\ Len(hist'.taken) = Len(hist.taken) + 1
           /\ last'.state = "done"
           /\ last'.err = NoExc
           /\ BitAnd(hist'.taken[Len(hist'.taken)].data[1], NO_MORE_DATA) /= 0)
             => streams'[thr.k.sid].done]_vars

\* the server answered expedited without the size bit, the first read
\* returned the four bytes, and the second read returned nothing: the only
\* frame ever sent is the initiate request
C25_Witness ==
    /\ last.op = "ReadableStream.read"
    /\ last.state = "done"
    /\ last.err = NoExc
    /\ last.value = <<>>
    /\ streams[last.sid].done
    /\ streams[last.sid].exp_data = <<52, 53, 0, 0>>
    /\ budget.calls = MaxCalls + 1 - 3
    /\ Len(sent) = 1

\* the frames with which a method of a block transfer itself aborted the
\* transfer of stream s (SdoClient.abort, called by the user, is not one)
OwnAborts(s) ==
    {i \in 1..Len(sent) :
        /\ sent[i].sid = s
        /\ sent[i].data[1] = REQUEST_ABORTED
        /\ sent[i].op \in {"BlockUploadStream.read", "BlockDownloadStream.write",
                           "BlockDownloadStream.close"}}

\* C26: once a method of a block transfer has itself sent an abort frame
\* for the transfer, the client sends no further frame of that transfer, a
\* later close of the stream included.
C26_NothingAfterOwnAbort ==
    \A s \in Sids : \A i \in OwnAborts(s) :
       \A j \in (i + 1)..Len(sent) : sent[j].sid /= s

\* close of the block download s has just returned without raising, after
\* it sent the END request and took the answer to it
ClosedWithoutError(s) ==
    /\ last.op = "BlockDownloadStream.close"
    /\ last.sid = s
    /\ last.state = "done"
    /\ last.err = NoExc
    /\ sent /= <<>>
    /\ sent[Len(sent)].op = "BlockDownloadStream.close"
    /\ sent[Len(sent)].sid = s
    /\ hist.taken /= <<>>
    /\ hist.taken[Len(hist.taken)].op = "BlockDownloadStream.close"
    /\ hist.taken[Len(hist.taken)].sid = s
    /\ hist.taken[Len(hist.taken)]["for"] = Len(sent)

\* the data frames of s that carry the no-more-blocks bit
LastDataFrames(s) == {i \in DataFramesSent(s) : sent[i].data[1] >= 128}

C28_DownloadIsConfirmed ==
    (/\ last.op = "SdoClient.download"
     /\ last.state = "done"
     /\ last.err = NoExc)
        => \E i \in 1..Len(sent) :
              /\ BitAnd(sent[i].data[1], 224) = REQUEST_DOWNLOAD
              /\ SDO_STRUCT_index(sent[i].data) = last.obj[1]
              /\ SDO_STRUCT_subindex(sent[i].data) = last.obj[2]
              /\ \E j \in 1..Len(hist.taken) :
                    /\ hist.taken[j]["for"] = i
                    /\ BitAnd(hist.taken[j].data[1], 224) = RESPONSE_DOWNLOAD

====
